---- MODULE Spec2Model ----
(***************************************************************************)
(* Multi-arrhythmia segment detection of MoMe2-MVP                         *)
(* (src/src/utils/orchestrationNode.ts).                                   *)
(*                                                                         *)
(* The detectors are pure functions of one MITBIHRecord; they are          *)
(* operators here, computed loop iteration by loop iteration as in the     *)
(* source.  The source works on IEEE doubles; the model works on exact     *)
(* rationals (a normalised numerator/denominator pair), which agrees with  *)
(* the doubles wherever a comparison is not within one rounding error of   *)
(* its threshold.                                                          *)
(***************************************************************************)
EXTENDS Integers, Sequences, FiniteSets, TLC

VARIABLES record, pc, result, previous, files, call, episodes, reviews, calls

vars == <<record, pc, result, previous, files, call, episodes, reviews, calls>>

(***************************************************************************)
(* Exact rational numbers (the source's `number`).                         *)
(***************************************************************************)
RECURSIVE GCD(_, _)
GCD(a, b) == IF b = 0 THEN a ELSE GCD(b, a % b)

Abs(x) == IF x < 0 THEN -x ELSE x

\* n/d in lowest terms, d > 0
Q(n, d) ==
  LET g == GCD(Abs(n), Abs(d))
      s == IF d < 0 THEN -1 ELSE 1
  IN  [n |-> s * (n \div g), d |-> s * (d \div g)]

QInt(k) == [n |-> k, d |-> 1]
QAdd(x, y) == Q(x.n * y.d + y.n * x.d, x.d * y.d)
QSub(x, y) == Q(x.n * y.d - y.n * x.d, x.d * y.d)
QDivInt(x, k) == Q(x.n, x.d * k)
QLt(x, y) == x.n * y.d < y.n * x.d
QLe(x, y) == x.n * y.d <= y.n * x.d
QGt(x, y) == QLt(y, x)
QGe(x, y) == QLe(y, x)
QMax2(x, y) == IF QLt(x, y) THEN y ELSE x
QMin2(x, y) == IF QLt(y, x) THEN y ELSE x

RECURSIVE QSum(_)
QSum(s) == IF s = <<>> THEN QInt(0) ELSE QAdd(Head(s), QSum(Tail(s)))

RECURSIVE QMax(_)
QMax(s) == IF Len(s) = 1 THEN s[1] ELSE QMax2(s[1], QMax(Tail(s)))

RECURSIVE QMin(_)
QMin(s) == IF Len(s) = 1 THEN s[1] ELSE QMin2(s[1], QMin(Tail(s)))

\* Math.round: the nearest integer, halves rounded up (floor(x + 1/2))
\* mutant: the fraction is dropped instead of rounded
MathTrunc(x) == x.n \div x.d

MathRound(x) == (2 * x.n + x.d) \div (2 * x.d)

(***************************************************************************)
(* The source's `number` as it is stored: IEEE 754 binary64, for values    *)
(* >= 0.  A positive value is [e, m]: m holds the 53 bits of the           *)
(* significand, leading bit first, and e is the binary exponent of the     *)
(* leading bit.  Results are rounded to nearest, ties to even.             *)
(***************************************************************************)
SignificandBits == 53

DoubleZero == [e |-> 0, m |-> <<>>]

\* a and b scaled by powers of 2 until b <= a < 2b; k counts the scaling
RECURSIVE Scaled(_, _, _)
Scaled(a, b, k) ==
  IF a < b THEN Scaled(2 * a, b, k - 1)
  ELSE IF a >= 2 * b THEN Scaled(a, 2 * b, k + 1)
  ELSE [k |-> k, a |-> a, b |-> b]

\* 2^n mod d, by repeated squaring
RECURSIVE PowMod(_, _)
PowMod(n, d) ==
  IF n = 0 THEN 1 % d
  ELSE LET h == PowMod(n \div 2, d)
       IN  (h * h * (IF n % 2 = 1 THEN 2 ELSE 1)) % d

\* long division of r by d for d <= r < 2d: before bit i is taken, what is
\* left of r is 2 * ((r * 2^(i-2)) mod d); bit i is set when that reaches d
Remainder(r, d, i) == IF i = 1 THEN r ELSE 2 * ((r * PowMod(i - 2, d)) % d)

QuotientBits(r, d, n) ==
  [bits |-> [i \in 1..n |-> IF Remainder(r, d, i) >= d THEN 1 ELSE 0],
   rem  |-> Remainder(r, d, n + 1)]

\* bits + 1, and the carry out of the leading bit
Increment(bits) ==
  LET n     == Len(bits)
      zeros == {i \in 1..n : bits[i] = 0}
  IN  IF zeros = {} THEN [bits |-> [i \in 1..n |-> 0], carry |-> 1]
      ELSE LET p == CHOOSE i \in zeros : \A j \in zeros : j <= i
           IN  [bits  |-> [i \in 1..n |->
                             IF i < p THEN bits[i] ELSE IF i = p THEN 1 ELSE 0],
                carry |-> 0]

\* round to nearest, ties to even: guard is the first bit dropped, sticky
\* tells whether any later bit is set
Rounded(e, bits, guard, sticky) ==
  IF guard = 1 /\ (sticky \/ bits[Len(bits)] = 1)
  THEN LET up == Increment(bits)
       IN  IF up.carry = 1
           THEN [e |-> e + 1, m |-> <<1>> \o SubSeq(up.bits, 1, Len(bits) - 1)]
           ELSE [e |-> e, m |-> up.bits]
  ELSE [e |-> e, m |-> bits]

\* a / b for integers a >= 0, b > 0
DoubleDiv(a, b) ==
  IF a = 0 THEN DoubleZero
  ELSE LET s     == Scaled(a, b, 0)
           q     == QuotientBits(s.a, s.b, SignificandBits)
           guard == IF q.rem >= s.b THEN 1 ELSE 0
       IN  Rounded(s.k, q.bits, guard, q.rem - guard * s.b > 0)

Zeros(n) == [i \in 1..n |-> 0]

\* bit strings are subtracted in limbs of 10 bits
LimbBits == 10
LimbBase == 1024

RECURSIVE BitsValue(_)
BitsValue(bits) ==
  IF bits = <<>> THEN 0
  ELSE 2 * BitsValue(SubSeq(bits, 1, Len(bits) - 1)) + bits[Len(bits)]

RECURSIVE Pow2(_)
Pow2(k) == IF k = 0 THEN 1 ELSE 2 * Pow2(k - 1)

Limbs(bits) ==
  [i \in 1..(Len(bits) \div LimbBits) |->
     BitsValue(SubSeq(bits, LimbBits * (i - 1) + 1, LimbBits * i))]

RECURSIVE LimbSub(_, _, _)
LimbSub(xl, yl, borrow) ==
  IF xl = <<>> THEN <<>>
  ELSE LET n == Len(xl)
           d == xl[n] - yl[n] - borrow
       IN  LimbSub(SubSeq(xl, 1, n - 1), SubSeq(yl, 1, n - 1),
                   IF d < 0 THEN 1 ELSE 0)
             \o <<IF d < 0 THEN d + LimbBase ELSE d>>

\* xb - yb on bit strings of one length, xb >= yb
BinSub(xb, yb) ==
  LET pad  == (LimbBits - (Len(xb) % LimbBits)) % LimbBits
      diff == LimbSub(Limbs(Zeros(pad) \o xb), Limbs(Zeros(pad) \o yb), 0)
  IN  [i \in 1..Len(xb) |->
         LET j == i + pad
         IN  (diff[(j - 1) \div LimbBits + 1]
                \div Pow2(LimbBits - 1 - ((j - 1) % LimbBits))) % 2]

LeadingZeros(bits) ==
  IF \A i \in 1..Len(bits) : bits[i] = 0 THEN Len(bits)
  ELSE (CHOOSE i \in 1..Len(bits) :
          bits[i] = 1 /\ \A j \in 1..(i - 1) : bits[j] = 0) - 1

\* x - y for x >= y >= 0
DoubleSub(x, y) ==
  IF y = DoubleZero THEN x
  ELSE LET shift == x.e - y.e
           diff  == BinSub(x.m \o Zeros(shift), Zeros(shift) \o y.m)
           z     == LeadingZeros(diff)
           bits  == SubSeq(diff, z + 1, Len(diff))
           n     == Len(bits)
       IN  IF n = 0 THEN DoubleZero
           ELSE IF n <= SignificandBits
           THEN [e |-> x.e - z, m |-> bits \o Zeros(SignificandBits - n)]
           ELSE Rounded(x.e - z, SubSeq(bits, 1, SignificandBits),
                        bits[SignificandBits + 1],
                        \E i \in (SignificandBits + 2)..n : bits[i] = 1)

(***************************************************************************)
(* R-peak selection and the instantaneous heart-rate series.               *)
(***************************************************************************)
Null == -1

RhythmTypes ==
  {"N", "L", "R", "B", "A", "a", "J", "S", "V", "r", "F", "e", "j", "n", "E", "/"}

RECURSIVE FilterAnn(_, _)
FilterAnn(anns, types) ==
  IF anns = <<>> THEN <<>>
  ELSE IF Head(anns).type \in types
       THEN <<Head(anns)>> \o FilterAnn(Tail(anns), types)
       ELSE FilterAnn(Tail(anns), types)

\* mutant: every annotation is taken for an R peak
RpeaksUnfiltered(rec) ==
  [i \in 1..Len(rec.annotations) |-> rec.annotations[i].sample]

\* record.annotations.filter(ann => [...].includes(ann.type)).map(ann => ann.sample)
Rpeaks(rec) ==
  LET kept == FilterAnn(rec.annotations, RhythmTypes)
  IN  [i \in 1..Len(kept) |-> kept[i].sample]

\* mutant: the heart rate is anchored at the later beat of its interval
HeartRatesLaterAnchor(rpeaks, fs) ==
  [i \in 1..(Len(rpeaks) - 1) |->
     [sample |-> rpeaks[i + 1], hr |-> Q(60 * fs, rpeaks[i + 1] - rpeaks[i])]]

\* hr = 60 / ((rpeaks[i+1] - rpeaks[i]) / fs), anchored at rpeaks[i]
HeartRates(rpeaks, fs) ==
  [i \in 1..(Len(rpeaks) - 1) |->
     [sample |-> rpeaks[i], hr |-> Q(60 * fs, rpeaks[i + 1] - rpeaks[i])]]

(***************************************************************************)
(* Bradycardia and tachycardia detectors.                                  *)
(***************************************************************************)
BradyThreshold == 60
TachyThreshold == 100
\* mutant: a run of 3 heart rates is already sustained
MinSegmentHRsLow == 4 - 1
MinSegmentHRs == 4
MinDuration == 3

\* mutant: 60 bpm already counts as bradycardia
IsBradyInclusive(hr) == QLe(hr, QInt(BradyThreshold))

IsBrady(hr) == QLt(hr, QInt(BradyThreshold))
\* mutant: 100 bpm already counts as tachycardia
IsTachyInclusive(hr) == QGe(hr, QInt(TachyThreshold))

IsTachy(hr) == QGt(hr, QInt(TachyThreshold))

Duration(startSample, endSample, fs) == Q(endSample - startSample, fs)

\* mutant: the duration gate left out
NoDurationGate(duration) == TRUE

\* duration >= 3.0
DurationOk(duration) == QGe(duration, QInt(MinDuration))

\* mutant: the mean of the rounded heart rates
AvgOfRounded(segmentHRs) ==
  QDivInt(QSum([i \in 1..Len(segmentHRs) |-> QInt(MathRound(segmentHRs[i]))]),
          Len(segmentHRs))

\* segmentHRs.reduce((a, b) => a + b, 0) / segmentHRs.length
AvgHR(segmentHRs) == QDivInt(QSum(segmentHRs), Len(segmentHRs))

BradycardiaSegment(rec, segmentStart, endSample, segmentHRs) ==
  [recordName  |-> rec.recordName,
   startSample |-> segmentStart,
   endSample   |-> endSample,
   startTime   |-> Q(segmentStart, rec.fs),
   endTime     |-> Q(endSample, rec.fs),
   minHR       |-> MathRound(QMin(segmentHRs)),
   avgHR       |-> MathRound(AvgHR(segmentHRs)),
   duration    |-> Duration(segmentStart, endSample, rec.fs)]

TachycardiaSegment(rec, segmentStart, endSample, segmentHRs) ==
  [recordName  |-> rec.recordName,
   startSample |-> segmentStart,
   endSample   |-> endSample,
   startTime   |-> Q(segmentStart, rec.fs),
   endTime     |-> Q(endSample, rec.fs),
   maxHR       |-> MathRound(QMax(segmentHRs)),
   avgHR       |-> MathRound(AvgHR(segmentHRs)),
   duration    |-> Duration(segmentStart, endSample, rec.fs)]

\* the state of the scan loop: segmentStart, segmentHRs and the output list
ScanInit == [segmentStart |-> Null, segmentHRs |-> <<>>, segments |-> <<>>]

\* the else branch: emit the open run when it passes both gates, then reset
BradyClose(rec, st, endSample) ==
  IF /\ st.segmentStart # Null
     /\ Len(st.segmentHRs) >= MinSegmentHRs
     /\ DurationOk(Duration(st.segmentStart, endSample, rec.fs))
  THEN Append(st.segments,
              BradycardiaSegment(rec, st.segmentStart, endSample, st.segmentHRs))
  ELSE st.segments

\* mutant: the run is not reset after it is closed
BradyStepNoReset(rec, st, h) ==
  IF IsBrady(h.hr)
  THEN IF st.segmentStart = Null
       THEN [st EXCEPT !.segmentStart = h.sample, !.segmentHRs = <<h.hr>>]
       ELSE [st EXCEPT !.segmentHRs = Append(@, h.hr)]
  ELSE [st EXCEPT !.segments = BradyClose(rec, st, h.sample)]

\* one iteration of the loop over heartRates
BradyStep(rec, st, h) ==
  IF IsBrady(h.hr)
  THEN IF st.segmentStart = Null
       THEN [st EXCEPT !.segmentStart = h.sample, !.segmentHRs = <<h.hr>>]
       ELSE [st EXCEPT !.segmentHRs = Append(@, h.hr)]
  ELSE [segmentStart |-> Null, segmentHRs |-> <<>>,
        segments |-> BradyClose(rec, st, h.sample)]

RECURSIVE BradyScan(_, _, _, _)
BradyScan(rec, heartRates, i, st) ==
  IF i > Len(heartRates) THEN st
  ELSE BradyScan(rec, heartRates, i + 1, BradyStep(rec, st, heartRates[i]))

\* mutant: the open run ends at the anchor of the last heart rate
LastAnchor(rpeaks) == rpeaks[Len(rpeaks) - 1]

\* end of record: the open run ends at rpeaks[rpeaks.length - 1]
LastRpeak(rpeaks) == rpeaks[Len(rpeaks)]

detectBradycardiaSegments(rec) ==
  LET rpeaks == Rpeaks(rec)
  IN  IF Len(rpeaks) < 2 THEN <<>>
      ELSE LET st == BradyScan(rec, HeartRates(rpeaks, rec.fs), 1, ScanInit)
           IN  BradyClose(rec, st, LastRpeak(rpeaks))

TachyClose(rec, st, endSample) ==
  IF /\ st.segmentStart # Null
     /\ Len(st.segmentHRs) >= MinSegmentHRs
     /\ DurationOk(Duration(st.segmentStart, endSample, rec.fs))
  THEN Append(st.segments,
              TachycardiaSegment(rec, st.segmentStart, endSample, st.segmentHRs))
  ELSE st.segments

\* mutant: the fast run is not closed by the beat that ends it
TachyStepNoReset(rec, st, h) ==
  IF IsTachy(h.hr)
  THEN IF st.segmentStart = Null
       THEN [st EXCEPT !.segmentStart = h.sample, !.segmentHRs = <<h.hr>>]
       ELSE [st EXCEPT !.segmentHRs = Append(@, h.hr)]
  ELSE [st EXCEPT !.segments = TachyClose(rec, st, h.sample)]

TachyStep(rec, st, h) ==
  IF IsTachy(h.hr)
  THEN IF st.segmentStart = Null
       THEN [st EXCEPT !.segmentStart = h.sample, !.segmentHRs = <<h.hr>>]
       ELSE [st EXCEPT !.segmentHRs = Append(@, h.hr)]
  ELSE [segmentStart |-> Null, segmentHRs |-> <<>>,
        segments |-> TachyClose(rec, st, h.sample)]

RECURSIVE TachyScan(_, _, _, _)
TachyScan(rec, heartRates, i, st) ==
  IF i > Len(heartRates) THEN st
  ELSE TachyScan(rec, heartRates, i + 1, TachyStep(rec, st, heartRates[i]))

detectTachycardiaSegments(rec) ==
  LET rpeaks == Rpeaks(rec)
  IN  IF Len(rpeaks) < 2 THEN <<>>
      ELSE LET st == TachyScan(rec, HeartRates(rpeaks, rec.fs), 1, ScanInit)
           IN  TachyClose(rec, st, LastRpeak(rpeaks))

(***************************************************************************)
(* PAC detector.                                                           *)
(***************************************************************************)
\* mutant: only the label 'A' is taken for a PAC
PacTypesUpper == {"A"}

PacTypes == {"A", "a"}

detectPAC(rec) ==
  LET kept == FilterAnn(rec.annotations, PacTypes)
      pacAnnotations ==
        [i \in 1..Len(kept) |->
           [sample |-> kept[i].sample,
            time   |-> Q(kept[i].sample, rec.fs),
            type   |-> kept[i].type]]
  IN  [total_pacs |-> Len(pacAnnotations), pac_annotations |-> pacAnnotations]

(***************************************************************************)
(* VTac detector.                                                          *)
(***************************************************************************)
\* mutant: a pair of V beats is already a run
MinVBeatsLow == 3 - 1
MinVBeats == 3
\* mutant: a gap of one second already breaks the run
VTacGapShort == 2 - 1
VTacGap == 2
NoSample == -1

\* mutant: a gap of exactly 2.0 s still joins
CloseToPreviousInclusive(currentSample, lastSample, fs) ==
  QLe(Q(currentSample - lastSample, fs), QInt(VTacGap))

\* (currentSample - lastSample) / fs < 2.0
CloseToPrevious(currentSample, lastSample, fs) ==
  QLt(Q(currentSample - lastSample, fs), QInt(VTacGap))

VTacSegment(rec, segmentStart, lastSample, vBeatCount) ==
  [recordName  |-> rec.recordName,
   startSample |-> segmentStart,
   endSample   |-> lastSample,
   startTime   |-> Q(segmentStart, rec.fs),
   endTime     |-> Q(lastSample, rec.fs),
   vBeats      |-> vBeatCount,
   duration    |-> Q(lastSample - segmentStart, rec.fs)]

VTacInit ==
  [segmentStart |-> Null, vBeatCount |-> 0, lastSample |-> NoSample,
   segments |-> <<>>]

\* save the run in progress if it is valid
VTacSave(rec, st) ==
  IF st.segmentStart # Null /\ st.vBeatCount >= MinVBeats
  THEN Append(st.segments,
              VTacSegment(rec, st.segmentStart, st.lastSample, st.vBeatCount))
  ELSE st.segments

\* one iteration of the loop over vBeats
VTacStep(rec, st, currentSample) ==
  IF st.lastSample = NoSample
     \/ CloseToPrevious(currentSample, st.lastSample, rec.fs)
  THEN [st EXCEPT
          !.segmentStart = IF @ = Null THEN currentSample ELSE @,
          !.vBeatCount = @ + 1,
          !.lastSample = currentSample]
  ELSE [segmentStart |-> currentSample,
        vBeatCount   |-> 1,
        lastSample   |-> currentSample,
        segments     |-> VTacSave(rec, st)]

RECURSIVE VTacScan(_, _, _, _)
VTacScan(rec, vBeats, i, st) ==
  IF i > Len(vBeats) THEN st
  ELSE VTacScan(rec, vBeats, i + 1, VTacStep(rec, st, vBeats[i].sample))

\* mutant: every annotation is taken for a V beat
AllBeats(rec) == rec.annotations

\* record.annotations.filter(ann => ann.type === 'V')
VBeats(rec) == FilterAnn(rec.annotations, {"V"})

detectVTac(rec) ==
  LET vBeats == VBeats(rec)
  IN  IF Len(vBeats) < MinVBeats THEN <<>>
      ELSE VTacSave(rec, VTacScan(rec, vBeats, 1, VTacInit))

(***************************************************************************)
(* AFib detector.                                                          *)
(***************************************************************************)
windowSize == 10
MinAFibBeats == 10
MinAFibDuration == 5

\* (rpeaks[i + 1] - rpeaks[i]) / fs for every pair of neighbours
RRIntervals(rpeaks, fs) ==
  [i \in 1..(Len(rpeaks) - 1) |-> Q(rpeaks[i + 1] - rpeaks[i], fs)]

QSq(x) == Q(x.n * x.n, x.d * x.d)

Mean(window) == QDivInt(QSum(window), Len(window))

Variance(window) ==
  LET mean == Mean(window)
  IN  QDivInt(QSum([j \in 1..Len(window) |-> QSq(QSub(window[j], mean))]),
              Len(window))

\* coeffVariation squared: variance / mean^2 (the source takes the root)
CoeffVariationSq(window) ==
  LET m2 == QSq(Mean(window))
      v  == Variance(window)
  IN  Q(v.n * m2.d, v.d * m2.n)

\* coeffVariation > 0.15, on the squares: both sides are positive
Irregular(window) == QGt(CoeffVariationSq(window), Q(9, 400))

\* Math.round(coeffVariation * 100) / 100: the k with
\* (2k - 1)^2 <= 40000 * cv^2 < (2k + 1)^2, over 100
RECURSIVE RoundRoot(_, _)
RoundRoot(x, k) ==
  IF QLt(x, QInt((2 * k + 1) * (2 * k + 1))) THEN k ELSE RoundRoot(x, k + 1)

IrregularityScore(window) ==
  LET c == CoeffVariationSq(window)
  IN  Q(RoundRoot(Q(40000 * c.n, c.d), 0), 100)

\* mutant: a window of exactly 5.0 s is long enough
AFibLongEnoughInclusive(duration) == QGe(duration, QInt(MinAFibDuration))

\* duration > 5.0
AFibLongEnough(duration) == QGt(duration, QInt(MinAFibDuration))

\* the loop bound of the window scan: i < rrIntervals.length - windowSize
LastWindowStart(rrIntervals) == Len(rrIntervals) - windowSize - 1

\* the candidate of window position i (0-based, as in the source), if any;
\* duration is the value of (endSample - startSample) / fs and
\* durationStored the binary64 number the segment holds for it
AFibCandidate(rec, rpeaks, rrIntervals, i) ==
  LET window      == SubSeq(rrIntervals, i + 1, i + windowSize)
      startSample == rpeaks[i + 1]
      endSample   == rpeaks[i + windowSize + 1]
      duration    == Q(endSample - startSample, rec.fs)
  IN  IF Irregular(window) /\ AFibLongEnough(duration)
      THEN <<[recordName        |-> rec.recordName,
              startSample       |-> startSample,
              endSample         |-> endSample,
              startTime         |-> Q(startSample, rec.fs),
              endTime           |-> Q(endSample, rec.fs),
              irregularityScore |-> IrregularityScore(window),
              duration          |-> duration,
              durationStored    |-> DoubleDiv(endSample - startSample, rec.fs)]>>
      ELSE <<>>

RECURSIVE AFibCandidates(_, _, _, _)
AFibCandidates(rec, rpeaks, rrIntervals, i) ==
  IF i > LastWindowStart(rrIntervals) THEN <<>>
  ELSE AFibCandidate(rec, rpeaks, rrIntervals, i)
         \o AFibCandidates(rec, rpeaks, rrIntervals, i + 1)

\* mutant: a candidate that only touches the previous segment is not merged
MergeStepStrict(merged, segment, fs) ==
  IF merged = <<>> THEN <<segment>>
  ELSE LET last == merged[Len(merged)]
       IN  IF QLt(segment.startTime, last.endTime)
           THEN LET endSample == IF segment.endSample > last.endSample
                                 THEN segment.endSample ELSE last.endSample
                    endTime   == Q(endSample, fs)
                IN  [merged EXCEPT ![Len(merged)] =
                       [last EXCEPT
                          !.endSample = endSample,
                          !.endTime = endTime,
                          !.duration = QSub(endTime, last.startTime),
                          !.durationStored =
                             DoubleSub(DoubleDiv(endSample, fs),
                                       DoubleDiv(last.startSample, fs)),
                          !.irregularityScore =
                             QMax2(last.irregularityScore,
                                   segment.irregularityScore)]]
           ELSE Append(merged, segment)

\* mutant: a merged segment reports the score of the candidate merged last
MergeStepLastScore(merged, segment, fs) ==
  IF merged = <<>> THEN <<segment>>
  ELSE LET last == merged[Len(merged)]
       IN  IF QLe(segment.startTime, last.endTime)
           THEN LET endSample == IF segment.endSample > last.endSample
                                 THEN segment.endSample ELSE last.endSample
                    endTime   == Q(endSample, fs)
                IN  [merged EXCEPT ![Len(merged)] =
                       [last EXCEPT
                          !.endSample = endSample,
                          !.endTime = endTime,
                          !.duration = QSub(endTime, last.startTime),
                          !.durationStored =
                             DoubleSub(DoubleDiv(endSample, fs),
                                       DoubleDiv(last.startSample, fs)),
                          !.irregularityScore = segment.irregularityScore]]
           ELSE Append(merged, segment)

\* one iteration of the merge loop
MergeStep(merged, segment, fs) ==
  IF merged = <<>> THEN <<segment>>
  ELSE LET last == merged[Len(merged)]
       IN  IF QLe(segment.startTime, last.endTime)
           THEN LET endSample == IF segment.endSample > last.endSample
                                 THEN segment.endSample ELSE last.endSample
                    endTime   == Q(endSample, fs)
                IN  [merged EXCEPT ![Len(merged)] =
                       [last EXCEPT
                          !.endSample = endSample,
                          !.endTime = endTime,
                          !.duration = QSub(endTime, last.startTime),
                          !.durationStored =
                             DoubleSub(DoubleDiv(endSample, fs),
                                       DoubleDiv(last.startSample, fs)),
                          !.irregularityScore =
                             QMax2(last.irregularityScore,
                                   segment.irregularityScore)]]
           ELSE Append(merged, segment)

RECURSIVE MergeSegments(_, _, _, _)
MergeSegments(segments, i, merged, fs) ==
  IF i > Len(segments) THEN merged
  ELSE MergeSegments(segments, i + 1, MergeStep(merged, segments[i], fs), fs)

detectAFib(rec) ==
  LET rpeaks == Rpeaks(rec)
  IN  IF Len(rpeaks) < MinAFibBeats THEN <<>>
      ELSE LET rrIntervals == RRIntervals(rpeaks, rec.fs)
           IN  MergeSegments(AFibCandidates(rec, rpeaks, rrIntervals, 0),
                             1, <<>>, rec.fs)

(***************************************************************************)
(* The orchestrator.                                                       *)
(***************************************************************************)
NoResult ==
  [recordName  |-> "",
   bradycardia |-> <<>>,
   tachycardia |-> <<>>,
   pac         |-> [total_pacs |-> 0, pac_annotations |-> <<>>],
   vtac        |-> <<>>,
   afib        |-> <<>>]

\* mutant: AFib segments that overlap a VTac segment are suppressed
RECURSIVE Unsuppressed(_, _)
Unsuppressed(afib, vtac) ==
  IF afib = <<>> THEN <<>>
  ELSE IF \E k \in 1..Len(vtac) :
            /\ vtac[k].startSample <= Head(afib).endSample
            /\ Head(afib).startSample <= vtac[k].endSample
       THEN Unsuppressed(Tail(afib), vtac)
       ELSE <<Head(afib)>> \o Unsuppressed(Tail(afib), vtac)

DetectionResultSuppressing(rec) ==
  [recordName  |-> rec.recordName,
   bradycardia |-> detectBradycardiaSegments(rec),
   tachycardia |-> detectTachycardiaSegments(rec),
   pac         |-> detectPAC(rec),
   vtac        |-> detectVTac(rec),
   afib        |-> Unsuppressed(detectAFib(rec), detectVTac(rec))]

DetectionResult(rec) ==
  [recordName  |-> rec.recordName,
   bradycardia |-> detectBradycardiaSegments(rec),
   tachycardia |-> detectTachycardiaSegments(rec),
   pac         |-> detectPAC(rec),
   vtac        |-> detectVTac(rec),
   afib        |-> detectAFib(rec)]

\* mutant: the detectors consume the annotations of the record they read
RecordConsumed(rec) == [rec EXCEPT !.annotations = <<>>]

\* mutant: the filter drops the annotations that are no beats from the record
\* itself
RecordFiltered(rec) ==
  [rec EXCEPT !.annotations = FilterAnn(rec.annotations, RhythmTypes)]

\* the record after a run: the detectors read it through filter and map,
\* which copy, and write to nothing but their own segments
RecordAfterDetection(rec) == rec

orchestrateDetection ==
  /\ pc = "loaded"
  /\ result' = DetectionResult(record)
  /\ record' = RecordAfterDetection(record)
  /\ pc' = "detected"
  /\ UNCHANGED <<previous, files, call, episodes, reviews, calls>>

Next == orchestrateDetection

\* a second call on the same record; `previous` keeps what the first returned
orchestrateDetectionAgain ==
  /\ pc = "detected"
  /\ previous' = result
  /\ result' = DetectionResult(record)
  /\ record' = RecordAfterDetection(record)
  /\ pc' = "detected twice"
  /\ UNCHANGED <<files, call, episodes, reviews, calls>>

NextRerun == orchestrateDetection \/ orchestrateDetectionAgain

(***************************************************************************)
(* The record files served under /data/mitbih and the arguments of a call  *)
(* of loadMITBIHEpisodes.                                                  *)
(***************************************************************************)
MITBIH_PATIENTS ==
  <<"117", "124", "123", "108", "113", "202", "121", "201", "106", "114">>

ALL_MITBIH_PATIENTS ==
  <<"200", "208", "207", "209", "100", "201", "203", "210", "117", "124",
    "123", "221", "217", "219", "222", "106", "108", "113", "114", "119",
    "121", "202", "213", "214", "215", "223", "228", "231", "233">>

RecordNames ==
  {ALL_MITBIH_PATIENTS[i] : i \in 1..Len(ALL_MITBIH_PATIENTS)}
    \cup {MITBIH_PATIENTS[i] : i \in 1..Len(MITBIH_PATIENTS)}

\* files maps the names a file is served under to the record in the file;
\* for any other name fetch answers with a status that is not ok
NoFiles == <<>>

NoCall == [maxEpisodes |-> 0, loadAll |-> FALSE]

(***************************************************************************)
(* Input records.  A record of n annotations starts at sample `first` and  *)
(* steps by gaps[1..n-1]; sample indices are strictly increasing.          *)
(***************************************************************************)
RECURSIVE SampleAt(_, _, _)
SampleAt(first, gaps, i) ==
  IF i = 1 THEN first ELSE SampleAt(first, gaps, i - 1) + gaps[i - 1]

MkRecord(name, fs, n, first, gaps, types) ==
  [recordName  |-> name,
   fs          |-> fs,
   annotations |-> [i \in 1..n |->
                      [sample |-> SampleAt(first, gaps, i), type |-> types[i]]]]

AllOfType(n, type) == [i \in 1..n |-> type]

\* normal beats with at most one non-beat annotation ("+", a rhythm change)
OneNonBeat(n, k) == [i \in 1..n |-> IF i = k THEN "+" ELSE "N"]

InitialState(rec) ==
  /\ record = rec
  /\ pc = "loaded"
  /\ result = NoResult
  /\ previous = NoResult
  /\ files = NoFiles
  /\ call = NoCall
  /\ episodes = <<>>
  /\ reviews = <<>>
  /\ calls = <<>>

\* Rate detectors: 120, 60 and 40 bpm at fs = 10.
MaxBeats == 9
RateGaps == {5, 10, 15}

Init ==
  \E n \in 0..MaxBeats :
    \E gaps \in [1..(n - 1) -> RateGaps], k \in 0..n :
      InitialState(MkRecord("100", 10, n, 0, gaps, OneNonBeat(n, k)))

Spec == Init /\ [][Next]_vars

\* Long records of 120 and 40 bpm beats: room for two runs of either kind.
MaxBeatsLong == 14
LongGaps == {5, 15}

InitLong ==
  \E n \in 0..MaxBeatsLong :
    \E gaps \in [1..(n - 1) -> LongGaps] :
      InitialState(MkRecord("117", 10, n, 0, gaps, AllOfType(n, "N")))

SpecLong == InitLong /\ [][Next]_vars

\* V and N beats 0.5 s or 1.5 s apart at fs = 10.
MaxBeatsVTac == 8
VTacGaps == {5, 15}

InitVTac ==
  \E n \in 0..MaxBeatsVTac :
    \E gaps \in [1..(n - 1) -> VTacGaps], types \in [1..n -> {"N", "V"}] :
      InitialState(MkRecord("200", 10, n, 0, gaps, types))

SpecVTac == InitVTac /\ [][Next]_vars

\* RR intervals of 5 or 7 samples at fs = 10 and fs = 12.
MaxBeatsAFib == 13
AFibGaps == {5, 7}
AFibRates == {10, 12}

InitAFib ==
  \E n \in 0..MaxBeatsAFib :
    \E gaps \in [1..(n - 1) -> AFibGaps], fs \in AFibRates :
      InitialState(MkRecord("201", fs, n, 0, gaps, AllOfType(n, "N")))

SpecAFib == InitAFib /\ [][Next]_vars

\* The scenario of the design: fs = 360 and sample spacings whose heart
\* rates round to 78, 77, 79, 45, 44, 46, 43, 70, 72 bpm.
ScenarioFs == 360
ScenarioHR == <<78, 77, 79, 45, 44, 46, 43, 70, 72>>
ScenarioSpacings ==
  {276, 277, 281, 273, 475, 480, 485, 486, 490, 495, 465, 468, 470, 500, 504,
   309, 300, 301}

SpacingsFor(i) ==
  {d \in ScenarioSpacings : MathRound(Q(60 * ScenarioFs, d)) = ScenarioHR[i]}

InitScenario ==
  \E g1 \in SpacingsFor(1), g2 \in SpacingsFor(2), g3 \in SpacingsFor(3),
     g4 \in SpacingsFor(4), g5 \in SpacingsFor(5), g6 \in SpacingsFor(6),
     g7 \in SpacingsFor(7), g8 \in SpacingsFor(8), g9 \in SpacingsFor(9) :
    InitialState(MkRecord("scenario", ScenarioFs, 10, 0,
                          <<g1, g2, g3, g4, g5, g6, g7, g8, g9>>,
                          AllOfType(10, "N")))

SpecScenario == InitScenario /\ [][Next]_vars

\* Three V beats at 0.0 s, 1.5 s and 3.0 s or 5.0 s, and two N beats at any
\* two other samples between the first V beat and the last.
RECURSIVE SortBySample(_)
SortBySample(S) ==
  IF S = {} THEN <<>>
  ELSE LET first == CHOOSE a \in S : \A b \in S : a.sample <= b.sample
       IN  <<first>> \o SortBySample(S \ {first})

GapRates == {2, 10}

InitGapTolerance ==
  \E fs \in GapRates, third \in {3, 5} :
    \E p, q \in 1..(third * fs - 1) :
      /\ p < q
      /\ {p, q} \cap {(3 * fs) \div 2} = {}
      /\ InitialState(
           [recordName  |-> "vtac",
            fs          |-> fs,
            annotations |-> SortBySample(
               {[sample |-> 0, type |-> "V"],
                [sample |-> (3 * fs) \div 2, type |-> "V"],
                [sample |-> third * fs, type |-> "V"],
                [sample |-> p, type |-> "N"],
                [sample |-> q, type |-> "N"]})])

SpecGapTolerance == InitGapTolerance /\ [][Next]_vars

\* Long records of RR intervals of 0.5 s at fs = 10, with two bursts of 3 to
\* 5 intervals of 0.7 s: room for irregular windows that overlap, touch or
\* lie apart.
MaxBeatsMerge == 24
BurstLengths == {3, 5}

BurstGaps(n, p1, w1, p2, w2) ==
  [i \in 1..(n - 1) |->
     IF i \in p1..(p1 + w1 - 1) \/ i \in p2..(p2 + w2 - 1) THEN 7 ELSE 5]

InitAFibMerge ==
  \E n \in 0..MaxBeatsMerge :
    \E p1, p2 \in 1..n, w1, w2 \in BurstLengths :
      /\ p1 <= p2
      /\ InitialState(MkRecord("203", 10, n, 0, BurstGaps(n, p1, w1, p2, w2),
                               AllOfType(n, "N")))

SpecAFibMerge == InitAFibMerge /\ [][Next]_vars

\* Short records that mix the PAC labels 'A' and 'a' with normal beats, V
\* beats and a rhythm-change annotation, at fs = 10 and fs = 12.
MaxBeatsPAC == 5
PACGaps == {5, 15}
PACLabels == {"N", "A", "a", "V", "+"}
PACRates == {10, 12}

InitPAC ==
  \E n \in 0..MaxBeatsPAC :
    \E gaps \in [1..(n - 1) -> PACGaps], types \in [1..n -> PACLabels],
       fs \in PACRates :
      InitialState(MkRecord("209", fs, n, 0, gaps, types))

SpecPAC == InitPAC /\ [][Next]_vars

\* Records for two successive runs: short ones over N, V and A beats, and
\* the longer ones of InitAFib.
MaxBeatsRerun == 6
RerunGaps == {5, 15}
RerunLabels == {"N", "V", "A"}

InitRerun ==
  \/ \E n \in 0..MaxBeatsRerun :
       \E gaps \in [1..(n - 1) -> RerunGaps], types \in [1..n -> RerunLabels] :
         InitialState(MkRecord("208", 10, n, 0, gaps, types))
  \/ InitAFib

SpecRerun == InitRerun /\ [][NextRerun]_vars

\* Records of RR intervals of 0.5 s with one burst of 0.7 s at fs = 10, all
\* normal beats but for 3 successive V beats from annotation v on (none
\* with v = 0): room for a fast, irregular stretch that holds a run of V beats.
MaxBeatsOverlap == 13

VRunLabels(n, v) ==
  [i \in 1..n |-> IF v > 0 /\ i \in v..(v + 2) THEN "V" ELSE "N"]

InitOverlap ==
  \E n \in 0..MaxBeatsOverlap :
    \E p \in 1..n, w \in BurstLengths, v \in 0..n :
      InitialState(MkRecord("217", 10, n, 0, BurstGaps(n, p, w, n + 1, w),
                            VRunLabels(n, v)))

SpecOverlap == InitOverlap /\ [][Next]_vars

\* Records with beats at exactly 60 bpm (gap 10) and exactly 100 bpm (gap 6)
\* among faster and slower ones.
MaxBeatsThreshold == 8
ThresholdGaps == {5, 6, 10, 15}

InitThreshold ==
  \E n \in 0..MaxBeatsThreshold :
    \E gaps \in [1..(n - 1) -> ThresholdGaps] :
      InitialState(MkRecord("100", 10, n, 0, gaps, AllOfType(n, "N")))

SpecThreshold == InitThreshold /\ [][Next]_vars

\* Records whose heart rates round onto a threshold, in runs of unequal
\* rates: at fs = 28202 beats at 59.75, 59 and 120 bpm, at fs = 802 beats
\* at 100.25, 120 and 60 bpm.
MaxBeatsRounding == 9

RoundingRates ==
  {[fs |-> 28202, gaps |-> {28320, 28680, 14101}],
   [fs |-> 802, gaps |-> {480, 401, 802}]}

InitRounding ==
  \E n \in 0..MaxBeatsRounding, rate \in RoundingRates :
    \E gaps \in [1..(n - 1) -> rate.gaps] :
      InitialState(MkRecord("100", rate.fs, n, 0, gaps, AllOfType(n, "N")))

SpecRounding == InitRounding /\ [][Next]_vars

(***************************************************************************)
(* The bradycardia detector exported by the MIT-BIH loader module          *)
(* (part_011), which the earlier version of the episode loader calls.      *)
(***************************************************************************)
MitbihRhythmTypes ==
  {"N", "L", "R", "B", "A", "a", "J", "S", "V", "r", "F", "e", "j", "n", "E",
   "/"}

MitbihRpeaks(rec) ==
  LET kept == FilterAnn(rec.annotations, MitbihRhythmTypes)
  IN  [i \in 1..Len(kept) |-> kept[i].sample]

MitbihHeartRates(rpeaks, fs) ==
  [i \in 1..(Len(rpeaks) - 1) |->
     [sample |-> rpeaks[i], hr |-> Q(60 * fs, rpeaks[i + 1] - rpeaks[i])]]

\* segments.push({...}) behind the two gates, for the closing beat and for
\* the end of the record
MitbihPush(rec, segments, segmentStart, segmentHRs, endSample) ==
  IF /\ segmentStart # Null
     /\ Len(segmentHRs) >= 4
     /\ QGe(Q(endSample - segmentStart, rec.fs), QInt(3))
  THEN Append(segments,
              [recordName  |-> rec.recordName,
               startSample |-> segmentStart,
               endSample   |-> endSample,
               startTime   |-> Q(segmentStart, rec.fs),
               endTime     |-> Q(endSample, rec.fs),
               minHR       |-> MathRound(QMin(segmentHRs)),
               avgHR       |-> MathRound(QDivInt(QSum(segmentHRs),
                                                 Len(segmentHRs))),
               duration    |-> Q(endSample - segmentStart, rec.fs)])
  ELSE segments

RECURSIVE MitbihScan(_, _, _, _, _, _, _)
MitbihScan(rec, rpeaks, heartRates, i, segmentStart, segmentHRs, segments) ==
  IF i > Len(heartRates)
  THEN MitbihPush(rec, segments, segmentStart, segmentHRs, rpeaks[Len(rpeaks)])
  ELSE IF QLt(heartRates[i].hr, QInt(60))
  THEN IF segmentStart = Null
       THEN MitbihScan(rec, rpeaks, heartRates, i + 1, heartRates[i].sample,
                       <<heartRates[i].hr>>, segments)
       ELSE MitbihScan(rec, rpeaks, heartRates, i + 1, segmentStart,
                       Append(segmentHRs, heartRates[i].hr), segments)
  ELSE MitbihScan(rec, rpeaks, heartRates, i + 1, Null, <<>>,
                  MitbihPush(rec, segments, segmentStart, segmentHRs,
                             heartRates[i].sample))

detectBradycardiaSegments_mitbih(rec) ==
  LET rpeaks == MitbihRpeaks(rec)
  IN  IF Len(rpeaks) < 2 THEN <<>>
      ELSE MitbihScan(rec, rpeaks, MitbihHeartRates(rpeaks, rec.fs), 1, Null,
                      <<>>, <<>>)

\* Records long enough for AFib windows to merge, opened by a rhythm marker
\* ('+') as the MIT-BIH records are.
MaxBeatsInput == 14
InputGaps == {5, 7}

InitInput ==
  \E n \in 0..MaxBeatsInput :
    \E gaps \in [1..(n - 1) -> InputGaps] :
      InitialState(MkRecord("201", 10, n, 0, gaps, OneNonBeat(n, 1)))

SpecInput == InitInput /\ [][Next]_vars

(***************************************************************************)
(* The episode loader (mitbihData.ts).  An Episode is modelled by its      *)
(* identifying fields, its sample bounds, its timestamps (milliseconds     *)
(* after baseDate) and its status.                                         *)
(***************************************************************************)

\* new Date(baseDate.getTime() + time * 1000), in milliseconds after
\* baseDate; a Date keeps whole milliseconds
Timestamp(time) == (time.n * 1000) \div time.d

\* the cap check that stands before every record and every segment
CapReachedLate(eps, c) == Len(eps) > c.maxEpisodes /\ ~c.loadAll

CapReached(eps, c) == Len(eps) >= c.maxEpisodes /\ ~c.loadAll

\* the episode_id of the episode built from a segment; eps is the list of
\* episodes built so far
EpisodeIdNumbered(recordName, type, segment, eps) ==
  "mitbih-" \o recordName \o "-" \o type \o "-" \o ToString(Len(eps))

\* mutant: the episode_id does not carry the start sample
EpisodeIdPerType(recordName, type, segment, eps) ==
  "mitbih-" \o recordName \o "-" \o type

EpisodeId(recordName, type, segment, eps) ==
  "mitbih-" \o recordName \o "-" \o type \o "-" \o ToString(segment.startSample)

SegmentEpisode(recordName, type, segment, eps) ==
  [episode_id   |-> EpisodeId(recordName, type, segment, eps),
   recording_id |-> "mitbih-" \o recordName,
   patient_id   |-> "Patient " \o recordName,
   type         |-> type,
   start_ts     |-> Timestamp(segment.startTime),
   end_ts       |-> Timestamp(segment.endTime),
   start_sample |-> segment.startSample,
   end_sample   |-> segment.endSample,
   status       |-> "needs_review"]

\* building the explanation calls toFixed on a property of the segment (of
\* the PAC summary); on an object without that property this is a call on
\* undefined, which raises a TypeError
ExplanationReads(type) ==
  IF type = "vtac" THEN {"qrs_width_ms"}
  ELSE IF type = "pac" THEN {"pacs_per_hour"}
  ELSE {}

ExplanationThrows(type, object) ==
  ~(ExplanationReads(type) \subseteq DOMAIN object)

\* one loop over the segments of one type: it stops at the cap, and it is
\* left by the TypeError of a segment's explanation
RECURSIVE SegmentEpisodes(_, _, _, _, _, _)
SegmentEpisodes(eps, recordName, type, segments, i, c) ==
  IF i > Len(segments) \/ CapReached(eps, c)
  THEN [episodes |-> eps, thrown |-> FALSE]
  ELSE IF ExplanationThrows(type, segments[i])
  THEN [episodes |-> eps, thrown |-> TRUE]
  ELSE SegmentEpisodes(
         Append(eps, SegmentEpisode(recordName, type, segments[i], eps)),
         recordName, type, segments, i + 1, c)

\* the PAC summary episode, timed by the first and the last PAC event
PacEpisode(recordName, pacSummary) ==
  LET firstPac == pacSummary.events[1]
      lastPac  == pacSummary.events[Len(pacSummary.events)]
  IN  [episode_id   |-> "mitbih-" \o recordName \o "-pac-summary",
       recording_id |-> "mitbih-" \o recordName,
       patient_id   |-> "Patient " \o recordName,
       type         |-> "pac",
       start_ts     |-> Timestamp(firstPac.time),
       end_ts       |-> Timestamp(lastPac.time),
       start_sample |-> firstPac.sample,
       end_sample   |-> lastPac.sample,
       status       |-> IF pacSummary.frequent THEN "needs_review"
                        ELSE "auto_approved"]

\* the PAC block has no cap check
PacEpisodes(eps, recordName, pacSummary) ==
  IF pacSummary.total_pacs > 0
  THEN IF ExplanationThrows("pac", pacSummary)
       THEN [episodes |-> eps, thrown |-> TRUE]
       ELSE [episodes |-> Append(eps, PacEpisode(recordName, pacSummary)),
             thrown   |-> FALSE]
  ELSE [episodes |-> eps, thrown |-> FALSE]

\* the body of the try block for one record: whatever is thrown inside is
\* caught, and the episodes pushed before it stay in the list
RecordEpisodes(eps, recordName, c, store) ==
  IF recordName \notin DOMAIN store THEN eps
  ELSE
    LET detections == DetectionResult(store[recordName])
        brady == SegmentEpisodes(eps, recordName, "brady",
                                 detections.bradycardia, 1, c)
        tachy == SegmentEpisodes(brady.episodes, recordName, "tachy",
                                 detections.tachycardia, 1, c)
        vtac  == SegmentEpisodes(tachy.episodes, recordName, "vtac",
                                 detections.vtac, 1, c)
        afib  == SegmentEpisodes(vtac.episodes, recordName, "afib",
                                 detections.afib, 1, c)
    IN  IF vtac.thrown THEN vtac.episodes
        ELSE PacEpisodes(afib.episodes, recordName, detections.pac).episodes

\* mutant: the first record that has no file ends the loop
RECURSIVE LoadRecordsAborting(_, _, _, _, _)
LoadRecordsAborting(eps, recordsToUse, i, c, store) ==
  IF i > Len(recordsToUse) \/ CapReached(eps, c) THEN eps
  ELSE IF recordsToUse[i] \notin DOMAIN store THEN eps
  ELSE LoadRecordsAborting(RecordEpisodes(eps, recordsToUse[i], c, store),
                           recordsToUse, i + 1, c, store)

RECURSIVE LoadRecords(_, _, _, _, _)
LoadRecords(eps, recordsToUse, i, c, store) ==
  IF i > Len(recordsToUse) \/ CapReached(eps, c) THEN eps
  ELSE LoadRecords(RecordEpisodes(eps, recordsToUse[i], c, store),
                   recordsToUse, i + 1, c, store)

\* episodes.sort((a, b) => a.start_ts.getTime() - b.start_ts.getTime());
\* Array.prototype.sort is stable
RECURSIVE SortByStartTs(_)
SortByStartTs(eps) ==
  IF eps = <<>> THEN <<>>
  ELSE LET sorted == SortByStartTs(SubSeq(eps, 1, Len(eps) - 1))
           e      == eps[Len(eps)]
           k      == Cardinality({j \in 1..Len(sorted) :
                                    sorted[j].start_ts <= e.start_ts})
       IN  SubSeq(sorted, 1, k) \o <<e>> \o SubSeq(sorted, k + 1, Len(sorted))

RecordsToUse(c) == IF c.loadAll THEN ALL_MITBIH_PATIENTS ELSE MITBIH_PATIENTS

LoadedEpisodes(c, store) ==
  SortByStartTs(LoadRecords(<<>>, RecordsToUse(c), 1, c, store))

\* the earlier version of the loader (part_002): bradycardia segments
\* only, both patient lists the same, no type in the episode_id
BradyEpisode(recordName, segment) ==
  [episode_id   |-> "mitbih-" \o recordName \o "-" \o ToString(segment.startSample),
   recording_id |-> "mitbih-" \o recordName,
   patient_id   |-> "Patient " \o recordName,
   type         |-> "brady",
   start_ts     |-> Timestamp(segment.startTime),
   end_ts       |-> Timestamp(segment.endTime),
   start_sample |-> segment.startSample,
   end_sample   |-> segment.endSample,
   status       |-> "needs_review"]

RECURSIVE BradyEpisodes(_, _, _, _, _)
BradyEpisodes(eps, recordName, segments, i, c) ==
  IF i > Len(segments) \/ CapReached(eps, c) THEN eps
  ELSE BradyEpisodes(Append(eps, BradyEpisode(recordName, segments[i])),
                     recordName, segments, i + 1, c)

RECURSIVE LoadBradyRecords(_, _, _, _, _)
LoadBradyRecords(eps, recordsToUse, i, c, store) ==
  IF i > Len(recordsToUse) \/ CapReached(eps, c) THEN eps
  ELSE LoadBradyRecords(
         IF recordsToUse[i] \notin DOMAIN store THEN eps
         ELSE BradyEpisodes(eps, recordsToUse[i],
                            detectBradycardiaSegments(store[recordsToUse[i]]),
                            1, c),
         recordsToUse, i + 1, c, store)

LoadedBradyEpisodes(c, store) ==
  SortByStartTs(LoadBradyRecords(<<>>, MITBIH_PATIENTS, 1, c, store))

MaxEpisodesArg == 4

NoRun == [call |-> NoCall, episodes |-> <<>>]

loadMITBIHEpisodes ==
  /\ pc = "ready"
  /\ \E maxEpisodes \in 0..MaxEpisodesArg, loadAll \in BOOLEAN :
       LET c == [maxEpisodes |-> maxEpisodes, loadAll |-> loadAll]
       IN  /\ call' = c
           /\ episodes' = LoadedEpisodes(c, files)
  /\ pc' = "episodes loaded"
  /\ UNCHANGED <<record, result, previous, files, reviews, calls>>

loadMITBIHEpisodesAgain ==
  /\ pc = "episodes loaded"
  /\ \E maxEpisodes \in 0..MaxEpisodesArg, loadAll \in BOOLEAN :
       LET c == [maxEpisodes |-> maxEpisodes, loadAll |-> loadAll]
       IN  /\ call' = c
           /\ episodes' = LoadedEpisodes(c, files)
  /\ previous' = [call |-> call, episodes |-> episodes]
  /\ pc' = "episodes loaded twice"
  /\ UNCHANGED <<record, result, files, reviews, calls>>

loadMITBIHEpisodes_part_002 ==
  /\ pc = "ready"
  /\ \E maxEpisodes \in 0..MaxEpisodesArg, loadAll \in BOOLEAN :
       LET c == [maxEpisodes |-> maxEpisodes, loadAll |-> loadAll]
       IN  /\ call' = c
           /\ episodes' = LoadedBradyEpisodes(c, files)
  /\ pc' = "episodes loaded (part_002)"
  /\ UNCHANGED <<record, result, previous, files, reviews, calls>>

NextLoad ==
  \/ loadMITBIHEpisodes
  \/ loadMITBIHEpisodesAgain
  \/ loadMITBIHEpisodes_part_002

\* the record files of a run, at fs = 10: the files of the first two names
\* of MITBIH_PATIENTS and of the first name of ALL_MITBIH_PATIENTS are
\* absent or hold one of these records
FileKinds == {"brady", "vtac", "pac", "brady pac", "vtac afib"}

FileGaps(kind) ==
  IF kind = "brady" THEN <<15, 15, 15, 15, 15, 8, 8, 15, 15, 15, 15, 15>>
  ELSE IF kind = "vtac" THEN <<5, 5, 5, 5, 5, 5, 5>>
  ELSE IF kind = "pac" THEN <<10, 10, 10, 10>>
  ELSE IF kind = "brady pac" THEN <<15, 15, 15, 15, 15>>
  ELSE <<7, 7, 7, 7, 7, 7, 7, 7, 5, 5, 5, 5, 5, 5>>

FileLabels(kind) ==
  IF kind = "brady" THEN AllOfType(13, "N")
  ELSE IF kind = "vtac" THEN <<"N", "N", "V", "V", "V", "N", "N", "N">>
  ELSE IF kind = "pac" THEN <<"N", "A", "N", "a", "N">>
  ELSE IF kind = "brady pac" THEN <<"N", "N", "A", "N", "N", "N">>
  ELSE <<"N", "N", "N", "N", "N", "N", "N", "N", "N", "N", "N", "N",
         "V", "V", "V">>

FileRecord(name, kind) ==
  MkRecord(name, 10, Len(FileLabels(kind)), 0, FileGaps(kind),
           FileLabels(kind))

VaryingNames == {MITBIH_PATIENTS[1], MITBIH_PATIENTS[2], ALL_MITBIH_PATIENTS[1]}

InitLoad ==
  \E present \in SUBSET VaryingNames :
    \E kind \in [present -> FileKinds] :
      /\ files = [name \in present |-> FileRecord(name, kind[name])]
      /\ record = MkRecord("", 10, 0, 0, <<>>, <<>>)
      /\ pc = "ready"
      /\ result = NoResult
      /\ previous = NoRun
      /\ call = NoCall
      /\ episodes = <<>>
      /\ reviews = <<>>
      /\ calls = <<>>

SpecLoad == InitLoad /\ [][NextLoad]_vars

(***************************************************************************)
(* The review store (useStore): the episodes shown, the reviews made, and  *)
(* the operations that write to either.  `calls` is the history of the     *)
(* operations called, kept for the properties.                             *)
(***************************************************************************)
MaxCalls == 3

\* the episodes the App hands to setEpisodes: two ids, one of them already
\* approved in one of its copies
ShownEpisode(episode_id, type, status) ==
  [episode_id   |-> episode_id,
   recording_id |-> "mitbih-117",
   patient_id   |-> "Patient 117",
   type         |-> type,
   status       |-> status]

ShownEpisodes ==
  {ShownEpisode("mitbih-117-brady-0", "brady", "needs_review"),
   ShownEpisode("mitbih-117-brady-0", "brady", "approved"),
   ShownEpisode("mitbih-117-pac-summary", "pac", "needs_review")}

EpisodeLists == UNION {[1..n -> ShownEpisodes] : n \in 0..2}

\* the ids a handler can be called with: those shown and one that is not
CalledIds ==
  {"mitbih-117-brady-0", "mitbih-117-pac-summary", "mitbih-124-brady-0"}

\* Date.now() at the call
Instants == {0, 1}

\* mutant: every episode gets the status
WithStatusAll(eps, episodeId, status) ==
  [i \in 1..Len(eps) |-> [eps[i] EXCEPT !.status = status]]

\* get().episodes.map((ep) => ep.episode_id === episodeId
\*                              ? { ...ep, status } : ep)
WithStatus(eps, episodeId, status) ==
  [i \in 1..Len(eps) |->
     IF eps[i].episode_id = episodeId
     THEN [eps[i] EXCEPT !.status = status]
     ELSE eps[i]]

ApproveReview(episodeId, reviewerId, timeMs, now) ==
  [review_id   |-> "review_" \o ToString(now),
   episode_id  |-> episodeId,
   reviewer_id |-> reviewerId,
   action      |-> "approve",
   timestamp   |-> now,
   time_ms     |-> timeMs]

DenyReview(episodeId, reviewerId, timeMs, reasonCode, notes, now) ==
  [review_id   |-> "review_" \o ToString(now),
   episode_id  |-> episodeId,
   reviewer_id |-> reviewerId,
   action      |-> "deny",
   reason_code |-> reasonCode,
   notes       |-> notes,
   timestamp   |-> now,
   time_ms     |-> timeMs]

setEpisodes ==
  /\ pc = "store"
  /\ Len(calls) < MaxCalls
  /\ \E eps \in EpisodeLists :
       /\ episodes' = eps
       /\ calls' = Append(calls, [op |-> "setEpisodes", episodes |-> eps])
  /\ UNCHANGED <<record, pc, result, previous, files, call, reviews>>

addReview ==
  /\ pc = "store"
  /\ Len(calls) < MaxCalls
  /\ \E now \in Instants :
       LET review == ApproveReview("mitbih-117-brady-0", "user_2", 0, now)
       IN  /\ reviews' = Append(reviews, review)
           /\ calls' = Append(calls, [op |-> "addReview", review |-> review])
  /\ UNCHANGED <<record, pc, result, previous, files, call, episodes>>

approveEpisode ==
  /\ pc = "store"
  /\ Len(calls) < MaxCalls
  /\ \E episodeId \in CalledIds, now \in Instants :
       /\ episodes' = WithStatus(episodes, episodeId, "approved")
       /\ reviews' = Append(reviews,
                            ApproveReview(episodeId, "user_1", 0, now))
       /\ calls' = Append(calls, [op |-> "approveEpisode",
                                  episodeId |-> episodeId])
  /\ UNCHANGED <<record, pc, result, previous, files, call>>

denyEpisode ==
  /\ pc = "store"
  /\ Len(calls) < MaxCalls
  /\ \E episodeId \in CalledIds, now \in Instants :
       /\ episodes' = WithStatus(episodes, episodeId, "denied")
       /\ reviews' = Append(reviews,
                            DenyReview(episodeId, "user_1", 0,
                                       "artifact_noise", "undefined", now))
       /\ calls' = Append(calls, [op |-> "denyEpisode",
                                  episodeId |-> episodeId])
  /\ UNCHANGED <<record, pc, result, previous, files, call>>

NextStore == setEpisodes \/ addReview \/ approveEpisode \/ denyEpisode

\* create<AppState>(...): episodes: [], reviews: []
InitStore ==
  /\ record = MkRecord("", 10, 0, 0, <<>>, <<>>)
  /\ pc = "store"
  /\ result = NoResult
  /\ previous = NoRun
  /\ files = NoFiles
  /\ call = NoCall
  /\ episodes = <<>>
  /\ reviews = <<>>
  /\ calls = <<>>

SpecStore == InitStore /\ [][NextStore]_vars

(***************************************************************************)
(* Vocabulary of the properties.                                           *)
(***************************************************************************)
Detected == pc = "detected"

\* the heart-rate series of the record under detection
Hrs == HeartRates(Rpeaks(record), record.fs)

\* the sample index of the last rhythm-bearing annotation of the record
LastBeatSample ==
  LET S == {record.annotations[i].sample : i \in
             {j \in 1..Len(record.annotations) :
                 record.annotations[j].type \in RhythmTypes}}
  IN  CHOOSE s \in S : \A u \in S : u <= s

Below60(h) == h.hr.n < 60 * h.hr.d
Above100(h) == h.hr.n > 100 * h.hr.d

\* hs[a..b] is a maximal run of heart rates below 60 (above 100) that is
\* closed by hs[b + 1], or, with b = Len(hs), still open at the end
BradyRun(hs, a, b) ==
  /\ 1 <= a /\ a <= b /\ b <= Len(hs)
  /\ \A i \in a..b : Below60(hs[i])
  /\ a = 1 \/ ~Below60(hs[a - 1])
  /\ b = Len(hs) \/ ~Below60(hs[b + 1])

TachyRun(hs, a, b) ==
  /\ 1 <= a /\ a <= b /\ b <= Len(hs)
  /\ \A i \in a..b : Above100(hs[i])
  /\ a = 1 \/ ~Above100(hs[a - 1])
  /\ b = Len(hs) \/ ~Above100(hs[b + 1])

\* the sample that ends the run hs[a..b]: the anchor of the closing heart
\* rate, or the last beat of the record
RunEnd(hs, b) == IF b < Len(hs) THEN hs[b + 1].sample ELSE LastBeatSample

StartingAt(segments, sample) ==
  {i \in 1..Len(segments) : segments[i].startSample = sample}

RateSegments ==
  {result.bradycardia[i] : i \in 1..Len(result.bradycardia)}
    \cup {result.tachycardia[i] : i \in 1..Len(result.tachycardia)}

(***************************************************************************)
(* C1: every segment the bradycardia or the tachycardia detector emits,    *)
(* closed by a violating beat or flushed at the end of the stream, ends    *)
(* after it starts and lasts at least 3.0 seconds.                         *)
(***************************************************************************)
C1_SegmentsLastThreeSeconds ==
  \A s \in RateSegments :
    /\ s.endSample > s.startSample
    /\ s.duration.n >= 3 * s.duration.d
    /\ s.endSample - s.startSample >= 3 * record.fs

\* a tachycardia run of exactly 3.0 s closed by a slower beat, and emitted
C1_Witness ==
  /\ Detected
  /\ LET hs == Hrs
     IN  \E a, b \in 1..(Len(hs) - 1) :
           /\ TachyRun(hs, a, b)
           /\ RunEnd(hs, b) - hs[a].sample = 3 * record.fs
           /\ StartingAt(result.tachycardia, hs[a].sample) # {}

(***************************************************************************)
(* C2: beat-count gate.  A run closed by a non-qualifying heart rate is    *)
(* never emitted when it holds fewer than 4 qualifying samples (3 values   *)
(* below 60 followed by a normal one give no bradycardia segment); a       *)
(* closed run of exactly 4 gives exactly one segment when it spans at      *)
(* least 3.0 s.                                                            *)
(***************************************************************************)
C2_BeatCountGate ==
  Detected =>
    LET hs == Hrs
    IN  /\ \A a, b \in 1..(Len(hs) - 1) :
             /\ BradyRun(hs, a, b) =>
                  /\ b - a + 1 < 4 =>
                       StartingAt(result.bradycardia, hs[a].sample) = {}
                  /\ ( /\ b - a + 1 = 4
                       /\ RunEnd(hs, b) - hs[a].sample >= 3 * record.fs ) =>
                       Cardinality(StartingAt(result.bradycardia, hs[a].sample)) = 1
             /\ TachyRun(hs, a, b) =>
                  /\ b - a + 1 < 4 =>
                       StartingAt(result.tachycardia, hs[a].sample) = {}
                  /\ ( /\ b - a + 1 = 4
                       /\ RunEnd(hs, b) - hs[a].sample >= 3 * record.fs ) =>
                       Cardinality(StartingAt(result.tachycardia, hs[a].sample)) = 1
        /\ (Len(hs) = 4 /\ BradyRun(hs, 1, 3)) => result.bradycardia = <<>>
        /\ (Len(hs) = 5 /\ BradyRun(hs, 1, 4)) => Len(result.bradycardia) = 1

\* exactly 4 values below 60 and then a normal one: one segment, over the run
C2_Witness ==
  /\ Detected
  /\ LET hs == Hrs
     IN  /\ Len(hs) = 5 /\ BradyRun(hs, 1, 4)
         /\ Len(result.bradycardia) = 1
         /\ result.bradycardia[1].startSample = hs[1].sample
         /\ result.bradycardia[1].endSample = hs[5].sample

(***************************************************************************)
(* C3: end-of-stream flush.  A run still open when the series ends is      *)
(* emitted iff it holds at least 4 qualifying samples and                  *)
(* (lastBeatSample - startSample) / fs >= 3.0; the emitted segment ends at *)
(* the last rhythm-bearing beat of the recording.                          *)
(***************************************************************************)
FlushedAsClaimed(hs, a, segments) ==
  LET hit == StartingAt(segments, hs[a].sample)
  IN  /\ hit # {} <=>
           /\ Len(hs) - a + 1 >= 4
           /\ LastBeatSample - hs[a].sample >= 3 * record.fs
      /\ \A i \in hit : segments[i].endSample = LastBeatSample

C3_EndOfStreamFlush ==
  Detected =>
    LET hs == Hrs
    IN  \A a \in 1..Len(hs) :
          /\ BradyRun(hs, a, Len(hs)) =>
               FlushedAsClaimed(hs, a, result.bradycardia)
          /\ TachyRun(hs, a, Len(hs)) =>
               FlushedAsClaimed(hs, a, result.tachycardia)

\* a record ending in 5 beats below 60 bpm, whose trailing segment is emitted
C3_Witness ==
  /\ Detected
  /\ LET hs == Hrs
     IN  /\ Len(hs) >= 6
         /\ BradyRun(hs, Len(hs) - 4, Len(hs))
         /\ \E i \in 1..Len(result.bradycardia) :
              /\ result.bradycardia[i].startSample = hs[Len(hs) - 4].sample
              /\ result.bradycardia[i].endSample = LastBeatSample

(***************************************************************************)
(* C4: within the bradycardia list, and within the tachycardia list,       *)
(* segments are in increasing order and never overlap.                     *)
(***************************************************************************)
Ordered(segments) ==
  \A i \in 1..(Len(segments) - 1) :
    /\ segments[i].startSample < segments[i + 1].startSample
    /\ segments[i].endSample <= segments[i + 1].startSample

C4_SegmentsOrderedDisjoint ==
  Ordered(result.bradycardia) /\ Ordered(result.tachycardia)

\* two bradycardia segments and two tachycardia segments
C4_Witness ==
  /\ Detected
  /\ Len(result.bradycardia) >= 2 \/ Len(result.tachycardia) >= 2

(***************************************************************************)
(* C5: the scenario at fs = 360 with heart rates 78, 77, 79, 45, 44, 46,   *)
(* 43, 70, 72: exactly one bradycardia segment, from the beat anchoring    *)
(* heart rate 3 to the beat anchoring heart rate 7 (counted from 0), with  *)
(* minHR = 43, and no tachycardia segment.  As claimed, avgHR = 45.        *)
(***************************************************************************)
ScenarioSegment ==
  /\ Len(result.bradycardia) = 1
  /\ result.bradycardia[1].startSample = Hrs[4].sample
  /\ result.bradycardia[1].endSample = Hrs[8].sample
  /\ result.bradycardia[1].minHR = 43
  /\ result.tachycardia = <<>>

C5_ScenarioAsClaimed ==
  Detected => ScenarioSegment /\ result.bradycardia[1].avgHR = 45

(***************************************************************************)
(* C5, amended: as above, but avgHR is the rounded mean of the four heart  *)
(* rates the sample spacings give, not of their rounded values: it is 45   *)
(* when the four rates sum to at least 178 bpm and 44 otherwise.           *)
(***************************************************************************)
\* whether 21600/d4 + 21600/d5 + 21600/d6 + 21600/d7 >= 178, on the spacings
ScenarioRatesReach178 ==
  LET a == record.annotations
      d(i) == a[i + 1].sample - a[i].sample
      sum == QAdd(QAdd(Q(21600, d(4)), Q(21600, d(5))),
                  QAdd(Q(21600, d(6)), Q(21600, d(7))))
  IN  sum.n >= 178 * sum.d

C5_ScenarioAvgFromSpacings ==
  Detected =>
    /\ ScenarioSegment
    /\ result.bradycardia[1].avgHR = IF ScenarioRatesReach178 THEN 45 ELSE 44

\* a scenario record whose segment reports avgHR = 44
C5_Witness ==
  Detected /\ ScenarioSegment /\ result.bradycardia[1].avgHR = 44

(***************************************************************************)
(* V beats and their runs, for the VTac properties.                        *)
(***************************************************************************)
VSamples ==
  LET a == record.annotations
      S == {a[i].sample : i \in {j \in 1..Len(a) : a[j].type = "V"}}
  IN  SortBySample({[sample |-> s] : s \in S})

\* vs[a..b] is a maximal run of V beats whose successive gaps are below
\* (inclusive: at most) 2.0 s
Joined(vs, i, inclusive) ==
  IF inclusive
  THEN vs[i + 1].sample - vs[i].sample <= 2 * record.fs
  ELSE vs[i + 1].sample - vs[i].sample < 2 * record.fs

VRun(vs, a, b, inclusive) ==
  /\ 1 <= a /\ a <= b /\ b <= Len(vs)
  /\ \A i \in a..(b - 1) : Joined(vs, i, inclusive)
  /\ a = 1 \/ ~Joined(vs, a - 1, inclusive)
  /\ b = Len(vs) \/ ~Joined(vs, b, inclusive)

Emitted(vs, a, b) ==
  {i \in 1..Len(result.vtac) :
     /\ result.vtac[i].startSample = vs[a].sample
     /\ result.vtac[i].endSample = vs[b].sample}

\* the runs of at least 3 V beats are the emitted segments
RunsAreSegments(inclusive) ==
  LET vs == VSamples
  IN  /\ \A a, b \in 1..Len(vs) :
           VRun(vs, a, b, inclusive) /\ b - a + 1 >= 3 => Emitted(vs, a, b) # {}
      /\ \A i \in 1..Len(result.vtac) :
           \E a, b \in 1..Len(vs) :
             VRun(vs, a, b, inclusive) /\ i \in Emitted(vs, a, b)

(***************************************************************************)
(* C6 as claimed: two successive V beats no more than 2.0 s apart, a gap   *)
(* of exactly 2.0 s included, are in the same run; only a gap above 2.0 s  *)
(* breaks a run.                                                           *)
(***************************************************************************)
C6_GapOfTwoSecondsJoins == Detected => RunsAreSegments(TRUE)

(***************************************************************************)
(* C6, amended: two successive V beats less than 2.0 s apart are in the    *)
(* same run; a gap of exactly 2.0 s, like any larger gap, breaks the run.  *)
(***************************************************************************)
C6_GapOfTwoSecondsBreaks ==
  Detected =>
    /\ RunsAreSegments(FALSE)
    /\ LET vs == VSamples
       IN  \A i \in 1..(Len(vs) - 1), k \in 1..Len(result.vtac) :
             LET s == result.vtac[k]
                 inside(x) == s.startSample <= x /\ x <= s.endSample
             IN  /\ inside(vs[i].sample) /\ inside(vs[i + 1].sample) =>
                      vs[i + 1].sample - vs[i].sample < 2 * record.fs
                 /\ inside(vs[i].sample) /\ ~inside(vs[i + 1].sample) =>
                      vs[i + 1].sample - vs[i].sample >= 2 * record.fs

\* a segment whose last V beat is followed by a V beat exactly 2.0 s later
C6_Witness ==
  /\ Detected
  /\ LET vs == VSamples
     IN  \E i \in 1..(Len(vs) - 1), k \in 1..Len(result.vtac) :
           /\ result.vtac[k].endSample = vs[i].sample
           /\ vs[i + 1].sample - vs[i].sample = 2 * record.fs

(***************************************************************************)
(* C7: beats labelled other than V between two V beats never break a run.  *)
(* Three V beats at 0.0 s, 1.5 s, 3.0 s with two N beats between them give *)
(* one VTac segment of 3 V beats; at 0.0 s, 1.5 s, 5.0 s they give none.   *)
(***************************************************************************)
VOnly(rec) == [rec EXCEPT !.annotations = FilterAnn(@, {"V"})]

C7_GapTolerance ==
  Detected =>
    LET vs == VSamples
        fs == record.fs
    IN  /\ result.vtac = detectVTac(VOnly(record))
        /\ ( /\ Len(vs) = 3 /\ Len(record.annotations) = 5
             /\ vs[1].sample = 0 /\ 2 * vs[2].sample = 3 * fs ) =>
             /\ vs[3].sample = 3 * fs =>
                  /\ Len(result.vtac) = 1
                  /\ result.vtac[1].vBeats = 3
                  /\ result.vtac[1].startSample = 0
                  /\ result.vtac[1].endSample = 3 * fs
             /\ vs[3].sample = 5 * fs => result.vtac = <<>>

\* V, N, V, N, V at 0.0 s, 1.5 s, 3.0 s: one segment of 3 V beats
C7_Witness ==
  /\ Detected
  /\ LET a == record.annotations
     IN  /\ Len(a) = 5
         /\ a[1].type = "V" /\ a[2].type = "N" /\ a[3].type = "V"
         /\ a[4].type = "N" /\ a[5].type = "V"
         /\ a[5].sample = 3 * record.fs
  /\ Len(result.vtac) = 1
  /\ result.vtac[1].vBeats = 3

(***************************************************************************)
(* C8: every VTac segment, the run in progress at the end of the beat list *)
(* included, starts and ends at a V beat and has a V-beat count >= 3 equal *)
(* to the number of V beats in [startSample, endSample]; and every maximal *)
(* run of at least 3 V beats is emitted exactly once.                      *)
(***************************************************************************)
C8_VTacSegmentsAreRuns ==
  Detected =>
    LET vs == VSamples
        V  == {vs[i].sample : i \in 1..Len(vs)}
        long == {r \in (1..Len(vs)) \X (1..Len(vs)) :
                   VRun(vs, r[1], r[2], FALSE) /\ r[2] - r[1] + 1 >= 3}
    IN  /\ \A k \in 1..Len(result.vtac) :
             LET s == result.vtac[k]
             IN  /\ s.vBeats >= 3
                 /\ s.startSample \in V /\ s.endSample \in V
                 /\ s.vBeats = Cardinality(
                       {x \in V : s.startSample <= x /\ x <= s.endSample})
        /\ \A r \in long : Cardinality(Emitted(vs, r[1], r[2])) = 1
        /\ Len(result.vtac) = Cardinality(long)

\* a closed run and the run in progress at the end, both emitted
C8_Witness ==
  /\ Detected
  /\ Len(result.vtac) = 2
  /\ result.vtac[2].endSample = VSamples[Len(VSamples)].sample

(***************************************************************************)
(* RR windows, for the AFib properties: computed on the sample spacings.   *)
(***************************************************************************)
\* the 10 spacings of the window that starts at RR interval i (from 0)
Spacing(rp, i, j) == rp[i + j + 1] - rp[i + j]

RECURSIVE SumTo(_, _, _, _)
SumTo(rp, i, j, power) ==
  IF j = 0 THEN 0
  ELSE SumTo(rp, i, j - 1, power)
         + (IF power = 2 THEN Spacing(rp, i, j) * Spacing(rp, i, j)
            ELSE Spacing(rp, i, j))

\* stdDev / mean > 0.15  <=>  400 * (10 * sum(d^2) - sum(d)^2) > 9 * sum(d)^2
WindowIrregular(rp, i) ==
  LET s1 == SumTo(rp, i, 10, 1)
      s2 == SumTo(rp, i, 10, 2)
  IN  400 * (10 * s2 - s1 * s1) > 9 * s1 * s1

\* the window spans more than 5.0 s from its first beat to its last
WindowLong(rp, i) == rp[i + 11] - rp[i + 1] > 5 * record.fs

Qualifies(rp, i) == WindowIrregular(rp, i) /\ WindowLong(rp, i)

(***************************************************************************)
(* C9: the AFib detector evaluates every position of the window of 10 RR   *)
(* intervals: with m RR intervals, every start index 0 <= i <= m - 10, so  *)
(* that 11 beats whose one window has a coefficient of variation above     *)
(* 0.15 and spans more than 5.0 s give one AFib segment.                   *)
(***************************************************************************)
C9_EveryWindowEvaluated ==
  Detected =>
    LET rp == Rpeaks(record)
        m  == Len(rp) - 1
    IN  /\ \A i \in 0..(m - 10) :
             Qualifies(rp, i) =>
               \E k \in 1..Len(result.afib) :
                 /\ result.afib[k].startSample <= rp[i + 1]
                 /\ rp[i + 11] <= result.afib[k].endSample
        /\ m = 10 /\ Qualifies(rp, 0) => Len(result.afib) = 1

(***************************************************************************)
(* C10: a window gives an AFib candidate only if its coefficient of        *)
(* variation is above 0.15 and it spans more than 5.0 s; a recording whose *)
(* RR intervals are all equal gives no AFib segment; every AFib segment    *)
(* lasts more than 5.0 s.                                                  *)
(***************************************************************************)
C10_AFibCandidatesQualify ==
  Detected =>
    LET rp   == Rpeaks(record)
        m    == Len(rp) - 1
        cand == IF Len(rp) < 2 THEN <<>>
                ELSE AFibCandidates(record, rp, RRIntervals(rp, record.fs), 0)
        fromWindow(startSample, endSample) ==
          \E i \in 0..(m - 10) :
            /\ startSample = rp[i + 1] /\ endSample = rp[i + 11]
            /\ Qualifies(rp, i)
    IN  /\ \A c \in 1..Len(cand) :
             fromWindow(cand[c].startSample, cand[c].endSample)
        /\ \A k \in 1..Len(result.afib) :
             LET s == result.afib[k]
             IN  /\ s.duration.n > 5 * s.duration.d
                 /\ s.endSample - s.startSample > 5 * record.fs
                 /\ \E e \in s.startSample..s.endSample :
                      fromWindow(s.startSample, e)
                 /\ \E b \in s.startSample..s.endSample :
                      fromWindow(b, s.endSample)
        /\ (\A i \in 1..(m - 1) : rp[i + 1] - rp[i] = rp[i + 2] - rp[i + 1]) =>
             result.afib = <<>>

\* an AFib segment in a record with an irregular window of at most 5.0 s
C10_Witness ==
  /\ Detected
  /\ result.afib # <<>>
  /\ LET rp == Rpeaks(record)
     IN  \E i \in 0..(Len(rp) - 11) :
           WindowIrregular(rp, i) /\ ~WindowLong(rp, i)

(***************************************************************************)
(* AFib candidates and their merge groups, for the merge properties.       *)
(***************************************************************************)
\* the candidates of the record under detection, in the order of the scan
Cands ==
  LET rp == Rpeaks(record)
  IN  IF Len(rp) < 2 THEN <<>>
      ELSE AFibCandidates(record, rp, RRIntervals(rp, record.fs), 0)

\* the candidates that start after the end of every candidate before them
Openers(cand) ==
  {k \in 1..Len(cand) :
     \A j \in 1..(k - 1) :
       cand[j].endTime.n * cand[k].startTime.d
         < cand[k].startTime.n * cand[j].endTime.d}

\* the i-th of the openers `open`, and the candidates from opener k up to
\* the next opener
Opener(open, i) ==
  CHOOSE k \in open : Cardinality({o \in open : o <= k}) = i

GroupOf(cand, open, k) ==
  {j \in k..Len(cand) : \A o \in open : o <= k \/ o > j}

(***************************************************************************)
(* C11: AFib merge rule.  A candidate is merged into the segment           *)
(* accumulated before it exactly when its startTime is <= that segment's   *)
(* endTime (touching counts as overlapping); otherwise it starts a new     *)
(* output segment.  Hence the output list is ordered by startTime and, for *)
(* consecutive output segments a, b: b.startTime > a.endTime.              *)
(***************************************************************************)
C11_AFibMergeRule ==
  Detected =>
    LET cand == Cands
        open == Openers(cand)
        out  == result.afib
    IN  /\ Len(out) = Cardinality(open)
        /\ \A k \in 1..Len(cand) :
             (k \in open) <=>
               \E i \in 1..Len(out) : out[i].startSample = cand[k].startSample
        /\ \A i \in 1..(Len(out) - 1) :
             /\ out[i + 1].startTime.n * out[i].endTime.d
                  > out[i].endTime.n * out[i + 1].startTime.d
             /\ out[i + 1].startSample > out[i].endSample
             /\ out[i].startSample < out[i + 1].startSample

\* two output segments, the first merged from overlapping candidates
C11_Witness ==
  /\ Detected
  /\ Len(result.afib) = 2
  /\ LET cand == Cands
     IN  \E j, k \in 1..Len(cand) :
           /\ j < k
           /\ cand[j].startSample = result.afib[1].startSample
           /\ cand[k].startSample < cand[j].endSample
           /\ cand[k].endSample = result.afib[1].endSample

(***************************************************************************)
(* C12: AFib merge result.  A merged segment keeps the startSample of its  *)
(* first candidate, ends at the maximum endSample of its candidates, has   *)
(* endTime and duration recomputed from that endSample, and reports the    *)
(* maximum (not the average, not the last) of its candidates' scores;      *)
(* candidates spanning [1000,2000] and [1800,2800] merge into one segment  *)
(* spanning [1000,2800].                                                   *)
(***************************************************************************)
MaxEnd(cand, G) ==
  CHOOSE e \in {cand[j].endSample : j \in G} :
    \A j \in G : cand[j].endSample <= e

MaxScore(cand, G) ==
  CHOOSE x \in {cand[j].irregularityScore : j \in G} :
    \A j \in G : cand[j].irregularityScore.n * x.d
                   <= x.n * cand[j].irregularityScore.d

ExampleCandidate(startSample, endSample, score) ==
  [recordName        |-> "203",
   startSample       |-> startSample,
   endSample         |-> endSample,
   startTime         |-> Q(startSample, 360),
   endTime           |-> Q(endSample, 360),
   irregularityScore |-> Q(score, 100),
   duration          |-> Q(endSample - startSample, 360),
   durationStored    |-> DoubleDiv(endSample - startSample, 360)]

ExampleMerged(score1, score2) ==
  MergeSegments(<<ExampleCandidate(1000, 2000, score1),
                  ExampleCandidate(1800, 2800, score2)>>, 1, <<>>, 360)

C12_AFibMergeResult ==
  Detected =>
    LET cand == Cands
        open == Openers(cand)
        out  == result.afib
        fs   == record.fs
    IN  /\ \A i \in 1..Len(out) :
             LET k == Opener(open, i)
                 G == GroupOf(cand, open, k)
             IN  /\ out[i].startSample = cand[k].startSample
                 /\ out[i].startTime = Q(cand[k].startSample, fs)
                 /\ out[i].endSample = MaxEnd(cand, G)
                 /\ out[i].endTime = Q(MaxEnd(cand, G), fs)
                 /\ out[i].duration
                      = Q(MaxEnd(cand, G) - cand[k].startSample, fs)
                 /\ out[i].irregularityScore = MaxScore(cand, G)
        /\ \A s1, s2 \in {16, 31} :
             LET m == ExampleMerged(s1, s2)
             IN  /\ Len(m) = 1
                 /\ m[1].startSample = 1000 /\ m[1].endSample = 2800
                 /\ m[1].startTime = Q(1000, 360)
                 /\ m[1].endTime = Q(2800, 360)
                 /\ m[1].duration = Q(1800, 360)
                 /\ m[1].irregularityScore
                      = Q(IF s1 > s2 THEN s1 ELSE s2, 100)

\* a segment merged from candidates whose highest score is neither the
\* first candidate's nor the last one's
C12_Witness ==
  /\ Detected
  /\ LET cand == Cands
         open == Openers(cand)
     IN  \E i \in 1..Len(result.afib) :
           LET G == GroupOf(cand, open, Opener(open, i))
               last == CHOOSE j \in G : \A g \in G : g <= j
           IN  /\ Cardinality(G) >= 3
               /\ result.afib[i].irregularityScore
                    # cand[Opener(open, i)].irregularityScore
               /\ result.afib[i].irregularityScore
                    # cand[last].irregularityScore
               /\ result.afib[i].endSample = cand[last].endSample

(***************************************************************************)
(* C13: the PAC detector is a pure extraction.  Its event list holds       *)
(* exactly the annotations labelled 'A' or 'a', in their original order,   *)
(* each as {sample, time = sample / fs, type = label}; no other annotation *)
(* appears in it; total_pacs is the length of the event list.              *)
(***************************************************************************)
\* the positions of the annotations labelled 'A' or 'a'
PacPositions ==
  {i \in 1..Len(record.annotations) : record.annotations[i].type \in {"A", "a"}}

\* the j-th of them, in the order of the record
PacPosition(j) ==
  CHOOSE i \in PacPositions : Cardinality({h \in PacPositions : h <= i}) = j

C13_PacIsExtraction ==
  Detected =>
    LET a  == record.annotations
        ev == result.pac.pac_annotations
    IN  /\ Len(ev) = Cardinality(PacPositions)
        /\ result.pac.total_pacs = Len(ev)
        /\ \A j \in 1..Len(ev) :
             LET i == PacPosition(j)
             IN  /\ ev[j].sample = a[i].sample
                 /\ ev[j].type = a[i].type
                 /\ ev[j].time.n * record.fs = a[i].sample * ev[j].time.d
                 /\ DOMAIN ev[j] = {"sample", "time", "type"}
        /\ \A j \in 1..Len(ev) : ev[j].type \in {"A", "a"}

\* an 'a' before an 'A' with another beat between them: two events, in order
C13_Witness ==
  /\ Detected
  /\ result.pac.total_pacs = 2
  /\ result.pac.pac_annotations[1].type = "a"
  /\ result.pac.pac_annotations[2].type = "A"
  /\ \E i \in 1..Len(record.annotations) :
       /\ record.annotations[i].type \in {"N", "V", "+"}
       /\ result.pac.pac_annotations[1].sample < record.annotations[i].sample
       /\ record.annotations[i].sample < result.pac.pac_annotations[2].sample

(***************************************************************************)
(* C14: detection is deterministic.  Running the PAC detector twice on the *)
(* same beat list gives identical event sequences, in order and content,   *)
(* and running orchestrateDetection twice on the same record gives         *)
(* identical bradycardia, tachycardia, VTac, AFib and PAC results.         *)
(***************************************************************************)
DetectedTwice == pc = "detected twice"

C15_DetectorsIndependent ==
  Detected =>
    /\ result.bradycardia = detectBradycardiaSegments(record)
    /\ result.tachycardia = detectTachycardiaSegments(record)
    /\ result.pac = detectPAC(record)
    /\ result.vtac = detectVTac(record)
    /\ result.afib = detectAFib(record)

\* s lies within t
Within(s, t) == t.startSample <= s.startSample /\ s.endSample <= t.endSample

\* a VTac segment that lies in an AFib segment and in a tachycardia segment
C15_Witness ==
  /\ Detected
  /\ \E v \in 1..Len(result.vtac), a \in 1..Len(result.afib),
        t \in 1..Len(result.tachycardia) :
       /\ Within(result.vtac[v], result.afib[a])
       /\ Within(result.vtac[v], result.tachycardia[t])

(***************************************************************************)
(* C16: insufficient data is a normal outcome.  For a record with fewer    *)
(* than 2 rhythm-bearing beats, an empty annotation list included, the     *)
(* bradycardia, tachycardia and AFib detectors each return an empty list,  *)
(* and orchestrateDetection completes and returns a DetectionResult.       *)
(***************************************************************************)
\* the annotations of the record that carry a rhythm-bearing label
BeatCount ==
  Cardinality({i \in 1..Len(record.annotations) :
                 record.annotations[i].type \in RhythmTypes})

C16_InsufficientDataIsEmpty ==
  (Detected /\ BeatCount < 2) =>
    /\ result.bradycardia = <<>>
    /\ result.tachycardia = <<>>
    /\ result.afib = <<>>
    /\ result.recordName = record.recordName
    /\ DOMAIN result
         = {"recordName", "bradycardia", "tachycardia", "pac", "vtac", "afib"}

\* a record of five annotations, one of them a beat, after detection
C16_Witness ==
  /\ Detected
  /\ Len(record.annotations) = 5
  /\ BeatCount = 1
  /\ result.bradycardia = <<>>
  /\ result.afib = <<>>

(***************************************************************************)
(* C17: segment shape, for bradycardia, tachycardia, VTac and AFib         *)
(* segments, the AFib ones also after merging: endSample > startSample,    *)
(* startTime = startSample / fs, endTime = endSample / fs, and duration =  *)
(* (endSample - startSample) / fs exactly, as the number the segment       *)
(* stores.                                                                 *)
(***************************************************************************)
AllSegments ==
  RateSegments
    \cup {result.vtac[i] : i \in 1..Len(result.vtac)}
    \cup {result.afib[i] : i \in 1..Len(result.afib)}

\* the shape of a segment in the values of its fields
ShapeOk(s) ==
  /\ s.endSample > s.startSample
  /\ s.startTime = Q(s.startSample, record.fs)
  /\ s.endTime = Q(s.endSample, record.fs)
  /\ s.duration = Q(s.endSample - s.startSample, record.fs)

\* the stored duration is the binary64 quotient (endSample - startSample) / fs
StoredDurationExact(s) ==
  s.durationStored = DoubleDiv(s.endSample - s.startSample, record.fs)

\* C17 as stated: every bradycardia, tachycardia, VTac and AFib segment of
\* the result has endSample > startSample, startTime = startSample / fs,
\* endTime = endSample / fs, and a stored duration that is exactly
\* (endSample - startSample) / fs, merged AFib segments included.
C17_SegmentShapeExact ==
  /\ \A s \in AllSegments : ShapeOk(s)
  /\ \A i \in 1..Len(result.afib) : StoredDurationExact(result.afib[i])

(***************************************************************************)
(* C18: episode assembly is complete.  After loadMITBIHEpisodes with       *)
(* loadAll = true, every record that loaded has one episode for each of    *)
(* its bradycardia, tachycardia, VTac and AFib segments, with the          *)
(* segment's sample bounds, plus one PAC summary episode when it has a PAC *)
(* event, and no other episode.                                            *)
(***************************************************************************)
EpisodesLoaded == pc = "episodes loaded"

\* the positions in the returned list of the episodes of one record
EpisodesOf(recordName) ==
  {i \in 1..Len(episodes) : episodes[i].recording_id = "mitbih-" \o recordName}

HasEpisode(recordName, type, segment) ==
  \E i \in EpisodesOf(recordName) :
    /\ episodes[i].type = type
    /\ episodes[i].start_sample = segment.startSample
    /\ episodes[i].end_sample = segment.endSample

AllHaveEpisodes(recordName, type, segments) ==
  \A j \in 1..Len(segments) : HasEpisode(recordName, type, segments[j])

C18_EpisodeAssemblyComplete ==
  (EpisodesLoaded /\ call.loadAll) =>
    \A recordName \in DOMAIN files :
      LET d == DetectionResult(files[recordName])
      IN  /\ AllHaveEpisodes(recordName, "brady", d.bradycardia)
          /\ AllHaveEpisodes(recordName, "tachy", d.tachycardia)
          /\ AllHaveEpisodes(recordName, "vtac", d.vtac)
          /\ AllHaveEpisodes(recordName, "afib", d.afib)
          /\ d.pac.total_pacs > 0 =>
               \E i \in EpisodesOf(recordName) : episodes[i].type = "pac"
          /\ Cardinality(EpisodesOf(recordName))
               = Len(d.bradycardia) + Len(d.tachycardia) + Len(d.vtac)
                   + Len(d.afib) + (IF d.pac.total_pacs > 0 THEN 1 ELSE 0)

(***************************************************************************)
(* C19: episode identifiers are stable.  Over two runs of                  *)
(* loadMITBIHEpisodes on the same files, whatever the arguments of each,   *)
(* two episodes built from rhythm segments with the same record, type and  *)
(* start sample carry the same episode_id; and when the two runs have the  *)
(* same arguments they return the same set of episode_id values.           *)
(***************************************************************************)
LoadedTwice == pc = "episodes loaded twice"

SegmentTypes == {"brady", "tachy", "vtac", "afib"}

SegmentEpisodesOf(eps) ==
  {eps[i] : i \in {j \in 1..Len(eps) : eps[j].type \in SegmentTypes}}

EpisodeIds(eps) == {eps[i].episode_id : i \in 1..Len(eps)}

C19_EpisodeIdsStable ==
  LoadedTwice =>
    /\ \A e1, e2 \in SegmentEpisodesOf(previous.episodes)
                       \cup SegmentEpisodesOf(episodes) :
         (/\ e1.recording_id = e2.recording_id
          /\ e1.type = e2.type
          /\ e1.start_sample = e2.start_sample)
           => e1.episode_id = e2.episode_id
    /\ previous.call = call
         => EpisodeIds(previous.episodes) = EpisodeIds(episodes)

\* two runs with the same arguments that each return episodes of two
\* records and of two types
C19_Witness ==
  /\ LoadedTwice
  /\ previous.call = call
  /\ \E e1, e2 \in SegmentEpisodesOf(episodes) :
       e1.recording_id # e2.recording_id /\ e1.type # e2.type
  /\ EpisodeIds(previous.episodes) # {}

(***************************************************************************)
(* C20: maxEpisodes is an upper bound.  When loadAll is false, a run of    *)
(* loadMITBIHEpisodes (of either version of the loader) returns at most    *)
(* maxEpisodes episodes, also when the cap is reached inside a record that *)
(* has PAC events.                                                         *)
(***************************************************************************)
Returned ==
  pc \in {"episodes loaded", "episodes loaded twice",
          "episodes loaded (part_002)"}

C20_MaxEpisodesIsUpperBound ==
  (Returned /\ ~call.loadAll) => Len(episodes) <= call.maxEpisodes

\* the cap is reached inside the first record, which has a PAC event, and
\* the next record has segments left
C20_Witness ==
  /\ EpisodesLoaded
  /\ ~call.loadAll
  /\ call.maxEpisodes >= 1
  /\ Len(episodes) = call.maxEpisodes
  /\ {MITBIH_PATIENTS[1], MITBIH_PATIENTS[2]} \subseteq DOMAIN files
  /\ detectPAC(files[MITBIH_PATIENTS[1]]).total_pacs > 0
  /\ Len(detectBradycardiaSegments(files[MITBIH_PATIENTS[1]]))
       = call.maxEpisodes
  /\ detectBradycardiaSegments(files[MITBIH_PATIENTS[2]]) # <<>>
  /\ \A i \in 1..Len(episodes) :
       episodes[i].recording_id = "mitbih-" \o MITBIH_PATIENTS[1]

(***************************************************************************)
(* C21: the threshold predicates are strict and every sustained run is     *)
(* reported.  A heart rate of exactly 60 bpm lies in no bradycardia        *)
(* segment and one of exactly 100 bpm in no tachycardia segment (each      *)
(* closes the run before it), and the bradycardia (tachycardia) list holds *)
(* exactly one segment for each maximal run of heart rates < 60 (> 100)    *)
(* that has at least 4 samples and spans at least 3.0 s, from the run's    *)
(* first anchor to its end, and no other segment.                          *)
(***************************************************************************)
Exactly60(h) == h.hr.n = 60 * h.hr.d
Exactly100(h) == h.hr.n = 100 * h.hr.d

Sustained(hs, a, b) ==
  /\ b - a + 1 >= 4
  /\ RunEnd(hs, b) - hs[a].sample >= 3 * record.fs

Covers(segments, sample) ==
  \E i \in 1..Len(segments) :
    segments[i].startSample <= sample /\ sample < segments[i].endSample

\* the segments of the list are those of the sustained runs among `runs`
\* (pairs <<a, b>> of maximal runs of hs), one for each, in their order
ReportsRuns(segments, hs, runs) ==
  LET sustained == {r \in runs : Sustained(hs, r[1], r[2])}
  IN  /\ Len(segments) = Cardinality(sustained)
      /\ \A r \in sustained :
           \E i \in 1..Len(segments) :
             /\ segments[i].startSample = hs[r[1]].sample
             /\ segments[i].endSample = RunEnd(hs, r[2])
             /\ i = Cardinality({q \in sustained : q[1] <= r[1]})

C21_StrictThresholdsAllRuns ==
  Detected =>
    LET hs == Hrs
        pairs == {r \in (1..Len(hs)) \X (1..Len(hs)) : r[1] <= r[2]}
    IN  /\ \A i \in 1..Len(hs) :
             /\ Exactly60(hs[i]) => ~Covers(result.bradycardia, hs[i].sample)
             /\ Exactly100(hs[i]) => ~Covers(result.tachycardia, hs[i].sample)
        /\ ReportsRuns(result.bradycardia, hs,
                       {r \in pairs : BradyRun(hs, r[1], r[2])})
        /\ ReportsRuns(result.tachycardia, hs,
                       {r \in pairs : TachyRun(hs, r[1], r[2])})

\* a tachycardia run of 6 samples closed by a heart rate of exactly 100 bpm
\* and emitted up to that beat
C21_Witness ==
  /\ Detected
  /\ LET hs == Hrs
     IN  /\ Len(hs) = 7
         /\ TachyRun(hs, 1, 6)
         /\ Exactly100(hs[7])
         /\ Len(result.tachycardia) = 1
         /\ result.tachycardia[1].endSample = hs[7].sample

(***************************************************************************)
(* C22: the rate fields of a segment are the rounded extremum and the      *)
(* rounded mean of the heart rates of its run, so that every bradycardia   *)
(* segment has minHR <= avgHR <= 60 and every tachycardia segment has      *)
(* 100 <= avgHR <= maxHR.                                                  *)
(***************************************************************************)
\* r is x rounded to the nearest integer, halves upwards
RoundsTo(x, r) ==
  /\ (2 * r - 1) * x.d <= 2 * x.n
  /\ 2 * x.n < (2 * r + 1) * x.d

\* the heart rates of the run of hs that starts at anchor `sample`
RunFrom(hs, sample, runs) ==
  LET r == CHOOSE q \in runs : hs[q[1]].sample = sample
  IN  [j \in 1..(r[2] - r[1] + 1) |-> hs[r[1] + j - 1].hr]

MeanOf(H) == QDivInt(QSum(H), Len(H))

C22_RateFieldsRounded ==
  Detected =>
    LET hs == Hrs
        pairs == {r \in (1..Len(hs)) \X (1..Len(hs)) : r[1] <= r[2]}
        slow  == {r \in pairs : BradyRun(hs, r[1], r[2])}
        fast  == {r \in pairs : TachyRun(hs, r[1], r[2])}
    IN  /\ \A i \in 1..Len(result.bradycardia) :
             LET s == result.bradycardia[i]
                 H == RunFrom(hs, s.startSample, slow)
             IN  /\ \E j \in 1..Len(H) :
                      /\ \A k \in 1..Len(H) : QLe(H[j], H[k])
                      /\ RoundsTo(H[j], s.minHR)
                 /\ RoundsTo(MeanOf(H), s.avgHR)
                 /\ s.minHR <= s.avgHR /\ s.avgHR <= 60
        /\ \A i \in 1..Len(result.tachycardia) :
             LET s == result.tachycardia[i]
                 H == RunFrom(hs, s.startSample, fast)
             IN  /\ \E j \in 1..Len(H) :
                      /\ \A k \in 1..Len(H) : QLe(H[k], H[j])
                      /\ RoundsTo(H[j], s.maxHR)
                 /\ RoundsTo(MeanOf(H), s.avgHR)
                 /\ 100 <= s.avgHR /\ s.avgHR <= s.maxHR

\* a bradycardia segment whose mean rounds up to 60 and whose minimum
\* rounds to 59
C22_Witness ==
  /\ Detected
  /\ \E i \in 1..Len(result.bradycardia) :
       /\ result.bradycardia[i].avgHR = 60
       /\ result.bradycardia[i].minHR = 59

(***************************************************************************)
(* C23: heart-rate anchoring.  Annotations outside the rhythm-bearing set  *)
(* are ignored (they neither create nor split an interval), each heart     *)
(* rate is anchored at the earlier beat of its interval, and every         *)
(* bradycardia or tachycardia segment, closed or flushed, starts at the    *)
(* earlier beat of its first qualifying interval and spans exactly its     *)
(* qualifying intervals: its duration is the sum of their RR intervals.    *)
(***************************************************************************)
\* the positions of the rhythm-bearing annotations, and the sample of the
\* j-th of them
BeatPositions ==
  {i \in 1..Len(record.annotations) :
     record.annotations[i].type \in RhythmTypes}

BeatSamples ==
  [j \in 1..Cardinality(BeatPositions) |->
     record.annotations[CHOOSE i \in BeatPositions :
                          Cardinality({h \in BeatPositions : h <= i}) = j].sample]

\* interval j lies between beats j and j + 1
SlowInterval(bs, j) == bs[j + 1] - bs[j] > record.fs
FastInterval(bs, j) == 5 * (bs[j + 1] - bs[j]) < 3 * record.fs

\* intervals a..b all qualify, and the ones next to them do not
SlowRun(bs, a, b) ==
  /\ 1 <= a /\ a <= b /\ b <= Len(bs) - 1
  /\ \A j \in a..b : SlowInterval(bs, j)
  /\ a = 1 \/ ~SlowInterval(bs, a - 1)
  /\ b = Len(bs) - 1 \/ ~SlowInterval(bs, b + 1)

FastRun(bs, a, b) ==
  /\ 1 <= a /\ a <= b /\ b <= Len(bs) - 1
  /\ \A j \in a..b : FastInterval(bs, j)
  /\ a = 1 \/ ~FastInterval(bs, a - 1)
  /\ b = Len(bs) - 1 \/ ~FastInterval(bs, b + 1)

\* segment s starts at beat a, ends at beat b + 1, and lasts as long as the
\* intervals a..b together
SpansIntervals(s, bs, a, b) ==
  /\ s.startSample = bs[a]
  /\ s.endSample = bs[b + 1]
  /\ s.duration.n * record.fs = s.duration.d * SumTo(bs, a - 1, b - a + 1, 1)

\* the record without its annotations outside the rhythm-bearing set
BeatsOnly ==
  [record EXCEPT !.annotations = FilterAnn(record.annotations, RhythmTypes)]

C23_AnchoredAtEarlierBeat ==
  Detected =>
    LET bs == BeatSamples
        hs == Hrs
    IN  /\ Len(hs) = (IF Len(bs) = 0 THEN 0 ELSE Len(bs) - 1)
        /\ \A j \in 1..Len(hs) :
             /\ hs[j].sample = bs[j]
             /\ hs[j].hr.n * (bs[j + 1] - bs[j]) = 60 * record.fs * hs[j].hr.d
        /\ \A i \in 1..Len(result.bradycardia) :
             \E a, b \in 1..(Len(bs) - 1) :
               /\ SlowRun(bs, a, b)
               /\ SpansIntervals(result.bradycardia[i], bs, a, b)
        /\ \A i \in 1..Len(result.tachycardia) :
             \E a, b \in 1..(Len(bs) - 1) :
               /\ FastRun(bs, a, b)
               /\ SpansIntervals(result.tachycardia[i], bs, a, b)
        /\ result.bradycardia = detectBradycardiaSegments(BeatsOnly)
        /\ result.tachycardia = detectTachycardiaSegments(BeatsOnly)

\* a segment closed by a faster beat, with an annotation that is no beat
\* between two of its beats
C23_Witness ==
  /\ Detected
  /\ \E i \in 1..Len(result.bradycardia), k \in 1..Len(record.annotations) :
       /\ record.annotations[k].type \notin RhythmTypes
       /\ result.bradycardia[i].startSample < record.annotations[k].sample
       /\ record.annotations[k].sample < result.bradycardia[i].endSample
       /\ result.bradycardia[i].endSample < LastBeatSample

(***************************************************************************)
(* C24: a record that fails to load, or whose processing throws, does not  *)
(* abort loadMITBIHEpisodes.  Of every record that has a file the returned *)
(* list holds the episodes built before anything was thrown (those of its  *)
(* bradycardia and tachycardia segments, and of its AFib segments when the *)
(* record has no VTac segment), whatever happened to the records before    *)
(* it; stated for the calls in which the cap did not cut the list.         *)
(***************************************************************************)
Uncapped == call.loadAll \/ Len(episodes) < call.maxEpisodes

Listed(recordName) ==
  \E i \in 1..Len(RecordsToUse(call)) : RecordsToUse(call)[i] = recordName

C24_ErrorsDoNotAbort ==
  (EpisodesLoaded /\ Uncapped) =>
    \A recordName \in DOMAIN files :
      Listed(recordName) =>
        LET d == DetectionResult(files[recordName])
        IN  /\ AllHaveEpisodes(recordName, "brady", d.bradycardia)
            /\ AllHaveEpisodes(recordName, "tachy", d.tachycardia)
            /\ d.vtac = <<>> => AllHaveEpisodes(recordName, "afib", d.afib)

\* the first record of the list throws at its VTac segment after its
\* tachycardia episode was built, the second has no file, and a later
\* record still gives its episodes
C24_Witness ==
  /\ EpisodesLoaded
  /\ call.loadAll
  /\ ALL_MITBIH_PATIENTS[1] \in DOMAIN files
  /\ ALL_MITBIH_PATIENTS[2] \notin DOMAIN files
  /\ detectVTac(files[ALL_MITBIH_PATIENTS[1]]) # <<>>
  /\ \E i \in EpisodesOf(ALL_MITBIH_PATIENTS[1]) : episodes[i].type = "tachy"
  /\ MITBIH_PATIENTS[1] \in DOMAIN files
  /\ \E i \in EpisodesOf(MITBIH_PATIENTS[1]) : episodes[i].type = "brady"

(***************************************************************************)
(* C25: the two bradycardia implementations agree.  For every record the   *)
(* detectBradycardiaSegments exported by the MIT-BIH loader module returns *)
(* the list the orchestrator's detectBradycardiaSegments returns: the same *)
(* segments in the same order, with the same startSample, endSample,       *)
(* minHR, avgHR and duration.                                              *)
(***************************************************************************)
C25_BradycardiaImplementationsAgree ==
  Detected =>
    LET other == detectBradycardiaSegments_mitbih(record)
        mine  == result.bradycardia
    IN  /\ Len(other) = Len(mine)
        /\ \A i \in 1..Len(mine) :
             /\ other[i].startSample = mine[i].startSample
             /\ other[i].endSample = mine[i].endSample
             /\ other[i].minHR = mine[i].minHR
             /\ other[i].avgHR = mine[i].avgHR
             /\ other[i].duration = mine[i].duration
        /\ other = mine

\* both return a segment closed by a beat of exactly 60 bpm, in a record
\* that holds an annotation that is no beat
C25_Witness ==
  /\ Detected
  /\ Len(result.bradycardia) = 1
  /\ detectBradycardiaSegments_mitbih(record) = result.bradycardia
  /\ \E k \in 1..Len(record.annotations) :
       record.annotations[k].type \notin RhythmTypes
  /\ LET hs == Hrs
     IN  \E j \in 1..Len(hs) :
           /\ Exactly60(hs[j])
           /\ hs[j].sample = result.bradycardia[1].endSample


(***************************************************************************)
(* C26: within one DetectionResult no bradycardia segment overlaps a       *)
(* tachycardia segment.  For every bradycardia segment b and tachycardia   *)
(* segment t of the record, b.endSample <= t.startSample or                *)
(* t.endSample <= b.startSample: they share at most an endpoint.           *)
(***************************************************************************)
Apart(b, t) ==
  \/ b.endSample <= t.startSample
  \/ t.endSample <= b.startSample

C26_BradyTachyDisjoint ==
  Detected =>
    \A i \in 1..Len(result.bradycardia), j \in 1..Len(result.tachycardia) :
      Apart(result.bradycardia[i], result.tachycardia[j])

\* a fast run that begins at the beat closing a slow run
C26_Witness ==
  /\ Detected
  /\ \E i \in 1..Len(result.bradycardia), j \in 1..Len(result.tachycardia) :
       result.bradycardia[i].endSample = result.tachycardia[j].startSample


(***************************************************************************)
(* C27: orchestrateDetection has no effect on its input.  After the call   *)
(* the record's annotation list (its length, its order, the sample and the *)
(* type of every annotation) and its fs are what they were before it, and  *)
(* the AFib merge step writes to nothing but the segments the detector     *)
(* made itself: what it returns is the merge of the candidates computed    *)
(* from the unchanged record.                                              *)
(***************************************************************************)
SameAnnotations(before, after) ==
  /\ Len(after) = Len(before)
  /\ \A i \in 1..Len(before) :
       /\ after[i].sample = before[i].sample
       /\ after[i].type = before[i].type

RECURSIVE VBeatsCounted(_, _)
VBeatsCounted(segments, i) ==
  IF i > Len(segments) THEN 0
  ELSE segments[i].vBeats + VBeatsCounted(segments, i + 1)

SegmentsHolding(segments, sample) ==
  {i \in 1..Len(segments) :
     /\ segments[i].startSample <= sample
     /\ sample <= segments[i].endSample}

GapSeconds(a, b, fs) == Q(b.startSample - a.endSample, fs)

C28_VTacSegmentsSeparated ==
  Detected =>
    LET vBeats == VBeats(record)
    IN  /\ \A k \in 1..Len(vBeats) :
             Cardinality(SegmentsHolding(result.vtac, vBeats[k].sample)) <= 1
        /\ VBeatsCounted(result.vtac, 1) <= Len(vBeats)
        /\ \A i \in 1..(Len(result.vtac) - 1) :
             QGe(GapSeconds(result.vtac[i], result.vtac[i + 1], record.fs),
                 QInt(2))

\* two emitted segments exactly 2.0 s apart
C28_Witness ==
  /\ Detected
  /\ Len(result.vtac) = 2
  /\ GapSeconds(result.vtac[1], result.vtac[2], record.fs) = QInt(2)
  /\ VBeatsCounted(result.vtac, 1) = 6


(***************************************************************************)
(* C29: episode identifiers are unique.  In the list returned by one call  *)
(* of loadMITBIHEpisodes no two Episodes have the same episode_id: not     *)
(* across records, not across arrhythmia types, and not across segments of *)
(* the same type in one record.                                            *)
(***************************************************************************)
ReturnedByLoader == pc \in {"episodes loaded", "episodes loaded twice"}

C29_EpisodeIdsUnique ==
  ReturnedByLoader =>
    /\ \A i, j \in 1..Len(episodes) :
         i # j => episodes[i].episode_id # episodes[j].episode_id
    /\ \A i \in 1..Len(ALL_MITBIH_PATIENTS), j \in 1..Len(ALL_MITBIH_PATIENTS) :
         i # j => ALL_MITBIH_PATIENTS[i] # ALL_MITBIH_PATIENTS[j]
    /\ \A i \in 1..Len(MITBIH_PATIENTS), j \in 1..Len(MITBIH_PATIENTS) :
         i # j => MITBIH_PATIENTS[i] # MITBIH_PATIENTS[j]

\* a returned list with two segments of one type of one record, two types
\* of one record, and two records
C29_Witness ==
  /\ EpisodesLoaded
  /\ \E i, j \in 1..Len(episodes) :
       /\ i # j
       /\ episodes[i].recording_id = episodes[j].recording_id
       /\ episodes[i].type = episodes[j].type
  /\ \E i, j \in 1..Len(episodes) :
       /\ episodes[i].recording_id = episodes[j].recording_id
       /\ episodes[i].type # episodes[j].type
  /\ \E i, j \in 1..Len(episodes) :
       episodes[i].recording_id # episodes[j].recording_id


\* the segments of one type of one record start at different samples, so
\* that the start sample tells them apart in the episode_id
StartsDiffer(segments) ==
  \A i, j \in 1..Len(segments) :
    i # j => segments[i].startSample # segments[j].startSample

SegmentStartsDistinct ==
  Detected =>
    /\ StartsDiffer(result.bradycardia)
    /\ StartsDiffer(result.tachycardia)
    /\ StartsDiffer(result.vtac)
    /\ StartsDiffer(result.afib)


(***************************************************************************)
(* C30: the review store.  Each approveEpisode/denyEpisode call appends    *)
(* exactly one Review to the reviews list, which is never shortened or     *)
(* reordered, sets the status of the episode with the given id to          *)
(* 'approved'/'denied', and leaves the status and all other fields of      *)
(* every other episode unchanged.  After any sequence of calls the number  *)
(* of reviews equals the number of calls, and each episode's status is     *)
(* that of the last call naming it, or its original status if none did.    *)
(***************************************************************************)
InStore == pc = "store"

ReviewCall(c) == c.op \in {"approveEpisode", "denyEpisode"}

StatusSetBy(c) == IF c.op = "approveEpisode" THEN "approved" ELSE "denied"

ActionOf(c) == IF c.op = "approveEpisode" THEN "approve" ELSE "deny"

\* the position in the history of the last setEpisodes, 0 if there is none
LastSet(history) ==
  LET sets == {i \in 1..Len(history) : history[i].op = "setEpisodes"}
  IN  IF sets = {} THEN 0 ELSE CHOOSE i \in sets : \A j \in sets : j <= i

\* the episodes as they were handed to the store
Original(history) ==
  IF LastSet(history) = 0 THEN <<>> ELSE history[LastSet(history)].episodes

\* the position of the last approve/deny call naming the id since then
LastNaming(history, episodeId) ==
  LET naming == {i \in (LastSet(history) + 1)..Len(history) :
                   /\ ReviewCall(history[i])
                   /\ history[i].episodeId = episodeId}
  IN  IF naming = {} THEN 0 ELSE CHOOSE i \in naming : \A j \in naming : j <= i

Expected(history, ep) ==
  LET k == LastNaming(history, ep.episode_id)
  IN  IF k = 0 THEN ep ELSE [ep EXCEPT !.status = StatusSetBy(history[k])]

ReviewsMade(history) ==
  Cardinality({i \in 1..Len(history) : history[i].op # "setEpisodes"})

AfterCalls ==
  InStore =>
    /\ Len(reviews) = ReviewsMade(calls)
    /\ Len(episodes) = Len(Original(calls))
    /\ \A i \in 1..Len(episodes) :
         episodes[i] = Expected(calls, Original(calls)[i])

OneCall ==
  InStore =>
    LET c == calls'[Len(calls')]
        k == Len(reviews)
    IN  /\ Len(reviews') >= k
        /\ SubSeq(reviews', 1, k) = reviews
        /\ ReviewCall(c) =>
             /\ Len(reviews') = k + 1
             /\ reviews'[k + 1].episode_id = c.episodeId
             /\ reviews'[k + 1].action = ActionOf(c)
             /\ Len(episodes') = Len(episodes)
             /\ \A i \in 1..Len(episodes) :
                  episodes'[i] =
                    IF episodes[i].episode_id = c.episodeId
                    THEN [episodes[i] EXCEPT !.status = StatusSetBy(c)]
                    ELSE episodes[i]

C30_ReviewStore == []AfterCalls /\ [][OneCall]_vars

\* two episodes shown, the first denied and then approved, the second left
\* alone
C30_Witness ==
  /\ InStore
  /\ Len(calls) = 3
  /\ calls[1].op = "setEpisodes"
  /\ calls[2].op = "denyEpisode"
  /\ calls[3].op = "approveEpisode"
  /\ calls[2].episodeId = calls[3].episodeId
  /\ Len(episodes) = 2
  /\ calls[1].episodes[1].status = "needs_review"
  /\ episodes[1].episode_id = calls[3].episodeId
  /\ episodes[1].status = "approved"
  /\ episodes[2].episode_id # calls[3].episodeId
  /\ episodes[2].status = "needs_review"
  /\ Len(reviews) = 2
  /\ reviews[1].action = "deny"
  /\ reviews[2].action = "approve"

====
